---- MODULE Spec2Model ----
(***************************************************************************)
(* Model of the EPN pipeline engine (epn_core/core): Pipeline.process,     *)
(* Pipeline._prepare_input_for_next_layer, Layer._process_parallel,        *)
(* Layer._process_sequential and BasicLLMNode.process/_prepare_variables.  *)
(*                                                                         *)
(* Spec: process(query) calls on one built pipeline.  The pipeline (layers, *)
(* execution modes, node ids, template input contexts) is chosen in Init   *)
(* and never changes.  The external text-generation client is opaque: a    *)
(* call may return any text, raise, or never return.                       *)
(* LoadSpec: Pipeline.load_config (ConfigLoader, TemplateManager,          *)
(* Validator, NodeFactory) on a constructed pipeline, then process calls.  *)
(* TemplateSpec: TemplateManager.load_templates and validate_templates.    *)
(***************************************************************************)
EXTENDS Integers, Sequences, FiniteSets, TLC

\* ---------------------------------------------------------------- bounds
\* layers in a pipeline: 1..MaxLayers
MaxLayers == 3
\* nodes in the one multi-node layer of a pipeline: 1..MaxNodes
MaxNodes == 2
\* placeholders in the input context of the node whose context varies
MaxCtx == 2
\* distinct texts the external client may return
NumTexts == 2

\* ---------------------------------------------------------------- values
\* A piece of data is raw text (Python str) or a keyed mapping (Python
\* dict).  A dict is modelled with its insertion order: a sequence of
\* <<key, value>> pairs with pairwise distinct keys.
Text(t) == [text |-> t]
MapV(d) == [map |-> d]
IsText(v) == DOMAIN v = {"text"}
IsMap(v) == DOMAIN v = {"map"}

DKeys(d) == [i \in 1..Len(d) |-> d[i][1]]
DKeySet(d) == {d[i][1] : i \in 1..Len(d)}
DHas(d, k) == k \in DKeySet(d)
DGet(d, k) == d[CHOOSE i \in 1..Len(d) : d[i][1] = k][2]
DSet(d, k, v) ==
    IF DHas(d, k)
    THEN [i \in 1..Len(d) |-> IF d[i][1] = k THEN <<k, v>> ELSE d[i]]
    ELSE Append(d, <<k, v>>)

Range(s) == {s[i] : i \in 1..Len(s)}

\* Every name that occurs as a node id or placeholder, in the order of
\* Python's sorted() on str (code points: digits < '_' < lower-case letters).
SortedNames ==
    << "a", "a_out", "b", "b_out", "c_out", "context_info",
       "fin", "fin2", "fin2_out", "fin3", "fin3_out", "fin_out",
       "in", "in3", "in3_out", "in_out", "input", "input_out",
       "n1", "n2", "n3",
       "out", "out2", "out2_out", "out3", "out3_out", "out_out",
       "query", "query_out", "question", "topic" >>

\* sorted(list(d.keys()))
SortedKeys(d) == SelectSeq(SortedNames, LAMBDA n : n \in DKeySet(d))

TextNames == << "T1", "T2", "T3", "T4" >>
Texts == {TextNames[i] : i \in 1..NumTexts}

Statuses == {"none", "created", "waiting", "done", "failed"}
NoError == [kind |-> "none"]

None == [none |-> TRUE]

\* The TypeError of re.findall given something that is not a str.
TypeError == [kind |-> "type_error"]

\* ------------------------------------------------- pipeline configurations
\* NodeConfig.node_id and the template's expected_output of the i-th node
\* of the l-th layer.  Node ids are unique across the pipeline.
LayerIds == << "L1", "L2", "L3", "L4" >>
NodeIdTable ==
    << << "in", "input", "in3" >>,
       << "a", "b", "query" >>,
       << "out", "out2", "out3" >>,
       << "fin", "fin2", "fin3" >> >>
TokenTable ==
    << << "in_out", "input_out", "in3_out" >>,
       << "a_out", "b_out", "query_out" >>,
       << "out_out", "out2_out", "out3_out" >>,
       << "fin_out", "fin2_out", "fin3_out" >> >>

Modes == {"parallel", "sequential"}

\* A pipeline of s.nl layers; layer s.wide holds s.width nodes and runs in
\* mode s.mode, every other layer holds one node and runs in PARALLEL mode
\* (the default of Layer.__init__).  The first node of layer s.pl has the
\* input context pctx; every other node has a context that the preceding
\* layer satisfies.
Shapes ==
    {s \in [nl : 1..MaxLayers, wide : 1..MaxLayers, width : 1..MaxNodes,
            mode : Modes, pl : 1..MaxLayers] :
        /\ s.wide <= s.nl
        /\ s.pl <= s.nl
        /\ (s.width = 1 => s.wide = 1)}

Width(s, l) == IF l = s.wide THEN s.width ELSE 1

PlaceholderNames(s) ==
    IF s.pl = 1
    THEN {"query", "question", "context_info", "topic"}
    ELSE {"query", "input", "context_info", "c_out"}
         \cup {NodeIdTable[s.pl - 1][i] : i \in {1, Width(s, s.pl - 1)}}
         \cup {TokenTable[s.pl - 1][i] : i \in {1, Width(s, s.pl - 1)}}
         \cup (IF s.pl > 2 THEN {NodeIdTable[s.pl - 2][1]} ELSE {})

\* re.findall(r'\{([^}]+)\}', ...) over the input context: the placeholder
\* names in order of occurrence.
Contexts(N) ==
    {c \in UNION {[1..k -> N] : k \in 1..MaxCtx} :
        \A i, j \in 1..Len(c) : i # j => c[i] # c[j]}

DefaultContext(l) == IF l = 1 THEN << "query" >> ELSE << NodeIdTable[l - 1][1] >>

BuildConfig(s, pctx) ==
    [l \in 1..s.nl |->
        [layer_id |-> LayerIds[l],
         execution_mode |-> IF l = s.wide THEN s.mode ELSE "parallel",
         nodes |-> [i \in 1..Width(s, l) |->
            [node_id |-> NodeIdTable[l][i],
             input_context |-> IF l = s.pl /\ i = 1 THEN pctx
                               ELSE DefaultContext(l),
             bad_item |-> FALSE,
             expected_output |-> TokenTable[l][i]]]]]

Configs ==
    UNION {{BuildConfig(s, c) : c \in Contexts(PlaceholderNames(s))} : s \in Shapes}

\* Inputs given to Pipeline.process: a raw query text or a keyed mapping.
Queries ==
    {Text("Q"),
     MapV(<< >>),
     MapV(<< <<"query", Text("Q")>> >>),
     MapV(<< <<"question", Text("Q")>>, <<"topic", Text("T1")>> >>)}

\* ------------------------------------------------------------------ state
VARIABLES
    layers,         \* Pipeline.layers in layer_order: the built Layer objects
    pc,             \* "idle", "running", "done" (returned), "failed" (raised)
    original_query, \* Pipeline.process: original_query
    li,             \* index in layer_order of the layer being processed
    current_data,   \* Pipeline.process: current_data
    layer_outputs,  \* Pipeline.process: layer_outputs, per layer index
    status,         \* per node: state of its node.process call / task
    received,       \* per node: the input_data its process() was called with
    variables,      \* per node: the mapping built by _prepare_variables
    out,            \* per node: the text returned by the external client
    excs,           \* per node: the exception its process() raised
    calls,          \* per node: number of llm_client.generate invocations
    completion,     \* the nodes whose process() has ended, in order of ending
    result,         \* value returned by Pipeline.process
    error,          \* exception raised by Pipeline.process
    templates,      \* TemplateManager.templates: the template store
    node_factory,   \* Pipeline.node_factory is not None
    loaded,         \* arguments of the last load_config / load_templates call
    load_error,     \* exception raised by the last load_config call
    validation,     \* outcome of the last TemplateManager.validate_templates
    returned,       \* value returned by the last ConfigLoader or rendering call
    client,         \* core LLMClient: its config and its generate_text call
    suspended       \* a second process() call, while the event loop runs the other

loadvars == << templates, node_factory, loaded, load_error, validation,
              returned, client, suspended >>

vars == << layers, pc, original_query, li, current_data, layer_outputs, status,
           received, variables, out, excs, calls, completion, result, error,
           loadvars >>

NumLayers == Len(layers)
NumNodes(l) == Len(layers[l].nodes)
NodeOf(l, i) == layers[l].nodes[i]
Nodes == UNION {{<<l, i>> : i \in 1..NumNodes(l)} : l \in 1..NumLayers}

PerNode(v) == [l \in 1..NumLayers |-> [i \in 1..NumNodes(l) |-> v]]

\* --------------------------------------------------------------- Node
\* PrepareVariables binding every absent placeholder to empty text.
PrepareVariables_BestEffort(node, input_data) ==
    LET placeholders == Range(node.input_context) IN
    IF IsText(input_data)
    THEN {[ok |-> TRUE,
           vars |-> [p \in placeholders |->
                        IF p = "context_info" THEN Text("") ELSE input_data]]}
    ELSE {[ok |-> TRUE,
           vars |-> [p \in placeholders |->
                        IF DHas(input_data.map, p)
                        THEN DGet(input_data.map, p) ELSE Text("")]]}

\* BasicLLMNode._prepare_variables: the possible outcomes of building the
\* variable mapping of `node` from input_data.  The placeholders are held in
\* a Python set, whose iteration order is unspecified: when several
\* placeholders are missing, any of them may be the one reported.  The
\* branch for inputs that are neither str nor dict is not reached: every
\* input here is a text or a mapping.  re.findall raises TypeError on an
\* item of the input context that is not a str.
PrepareVariables(node, input_data) ==
    LET placeholders == Range(node.input_context) IN
    IF node.bad_item
    THEN {[ok |-> FALSE, err |-> TypeError]}
    ELSE IF IsText(input_data)
    THEN {[ok |-> TRUE,
           vars |-> [p \in placeholders |->
                        IF p = "context_info" THEN Text("") ELSE input_data]]}
    ELSE LET d == input_data.map
             missing == {p \in placeholders :
                            ~DHas(d, p) /\ p # "context_info"}
         IN IF missing # {}
            THEN {[ok |-> FALSE,
                   err |-> [kind |-> "missing_variable",
                            placeholder |-> p,
                            node |-> node.node_id,
                            available |-> DKeys(d)]] : p \in missing}
            ELSE {[ok |-> TRUE,
                   vars |-> [p \in placeholders |->
                                IF DHas(d, p) THEN DGet(d, p) ELSE Text("")]]}

\* ----------------------------------------------------------- Pipeline
\* The <<node id, placeholder>> pairs that the loops of
\* _prepare_input_for_next_layer visit, in visiting order: the nodes of the
\* next layer in insertion order, each node's placeholders in order.
RECURSIVE NodePlaceholders(_, _)
NodePlaceholders(nodes, i) ==
    IF i > Len(nodes) THEN << >>
    ELSE [k \in 1..Len(nodes[i].input_context) |->
            << nodes[i].node_id, nodes[i].input_context[k] >>]
         \o NodePlaceholders(nodes, i + 1)

\* UnresolvedPlaceholderError with the two layer ids exchanged.
UnresolvedPlaceholderError_LayersSwapped(placeholder, node_id, next_layer_id, layer_id, layer_output) ==
    [kind |-> "configuration",
     placeholder |-> placeholder,
     node |-> node_id,
     layer |-> layer_id,
     previous |-> next_layer_id,
     available |-> SortedKeys(layer_output)]

\* The ValueError raised for a placeholder that nothing satisfies.
UnresolvedPlaceholderError(placeholder, node_id, next_layer_id, layer_id, layer_output) ==
    [kind |-> "configuration",
     placeholder |-> placeholder,
     node |-> node_id,
     layer |-> next_layer_id,
     previous |-> layer_id,
     available |-> SortedKeys(layer_output)]

\* The body of the placeholder loop, from the k-th visited pair on.
RECURSIVE ResolvePlaceholders(_, _, _, _, _, _, _)
ResolvePlaceholders(pairs, k, next_layer_inputs, query, layer_output, layer_id, next_layer_id) ==
    IF k > Len(pairs) THEN [ok |-> TRUE, data |-> MapV(next_layer_inputs)]
    ELSE
    LET node_id == pairs[k][1]
        placeholder == pairs[k][2]
        Continue(inputs) ==
            ResolvePlaceholders(pairs, k + 1, inputs, query, layer_output,
                                layer_id, next_layer_id)
    IN  IF DHas(next_layer_inputs, placeholder)
            THEN Continue(next_layer_inputs)
        ELSE IF placeholder = "query"
            THEN Continue(DSet(next_layer_inputs, "query", query))
        ELSE IF placeholder = "input"
            THEN Continue(DSet(next_layer_inputs, "input", MapV(layer_output)))
        ELSE IF DHas(layer_output, placeholder)
            THEN Continue(DSet(next_layer_inputs, placeholder,
                               DGet(layer_output, placeholder)))
        ELSE [ok |-> FALSE,
              err |-> UnresolvedPlaceholderError(placeholder, node_id,
                          next_layer_id, layer_id, layer_output)]

\* PrepareInputForNextLayer binding `query` to the current layer's output
\* instead of the original query.
PrepareInputForNextLayer_QueryFromOutput(query, layer_output, l) ==
    ResolvePlaceholders(NodePlaceholders(layers[l + 1].nodes, 1), 1,
                        << <<"query", MapV(layer_output)>> >>,
                        MapV(layer_output), layer_output,
                        layers[l].layer_id, layers[l + 1].layer_id)

\* Pipeline._prepare_input_for_next_layer for the layer at index l (not the
\* last one): the next layer's input mapping, or the error raised.  The
\* nodes of the next layer are visited in order; re.findall raises TypeError
\* at the first node whose input context holds an item that is not a str,
\* after the placeholders of the nodes before it have been resolved.
PrepareInputForNextLayer(query, layer_output, l) ==
    LET nodes == layers[l + 1].nodes
        bad == {i \in 1..Len(nodes) : nodes[i].bad_item}
        upto == IF bad = {} THEN Len(nodes)
                ELSE (CHOOSE i \in bad : \A j \in bad : i <= j) - 1
        r == ResolvePlaceholders(NodePlaceholders(SubSeq(nodes, 1, upto), 1), 1,
                                 << <<"query", query>> >>, query, layer_output,
                                 layers[l].layer_id, layers[l + 1].layer_id)
    IN IF bad # {} /\ r.ok THEN [ok |-> FALSE, err |-> TypeError] ELSE r

\* ------------------------------------------------- steps of one process()
\* The part of the state that one step of process() may change.
Cur ==
    [pc |-> pc, li |-> li, current_data |-> current_data,
     layer_outputs |-> layer_outputs, status |-> status,
     received |-> received, variables |-> variables, out |-> out,
     excs |-> excs, calls |-> calls, completion |-> completion,
     result |-> result, error |-> error]

\* The per-call data before any call of process() on the layers ls.
Fresh(ls) ==
    LET PerNodeOf(v) == [l \in 1..Len(ls) |-> [i \in 1..Len(ls[l].nodes) |-> v]]
    IN [pc |-> "idle", li |-> 0, current_data |-> None,
        layer_outputs |-> [l \in 1..Len(ls) |-> None],
        status |-> PerNodeOf("none"), received |-> PerNodeOf(None),
        variables |-> PerNodeOf(None), out |-> PerNodeOf(None),
        excs |-> PerNodeOf(NoError), calls |-> PerNodeOf(0),
        completion |-> << >>, result |-> None, error |-> NoError]

Become(X) ==
    /\ pc' = X.pc
    /\ li' = X.li
    /\ current_data' = X.current_data
    /\ layer_outputs' = X.layer_outputs
    /\ status' = X.status
    /\ received' = X.received
    /\ variables' = X.variables
    /\ out' = X.out
    /\ excs' = X.excs
    /\ calls' = X.calls
    /\ completion' = X.completion
    /\ result' = X.result
    /\ error' = X.error

\* BasicLLMNode.process(input_data) of node <<l, i>> up to its await of
\* llm_client.generate: the mapping is built and the external call issued,
\* or _prepare_variables raises.
NodeBegin(X, l, i, input_data) ==
    {IF o.ok
     THEN [X EXCEPT !.received[l][i] = input_data,
                    !.variables[l][i] = o.vars,
                    !.status[l][i] = "waiting",
                    !.calls[l][i] = @ + 1]
     ELSE [X EXCEPT !.received[l][i] = input_data,
                    !.status[l][i] = "failed",
                    !.excs[l][i] = o.err,
                    !.completion = Append(@, << l, i >>)]
     : o \in PrepareVariables(NodeOf(l, i), input_data)}

\* Layer._process_sequential calling node i with `data`: the call runs up to
\* the node's external call; an exception of the node leaves the layer and
\* Pipeline.process at once.
SequentialCall(X, l, i, data) ==
    {IF Y.status[l][i] = "failed"
     THEN [Y EXCEPT !.pc = "failed", !.error = Y.excs[l][i]]
     ELSE Y
     : Y \in NodeBegin(X, l, i, data)}

\* LayerProcess creating one task per node whatever the execution mode.
LayerProcess_IgnoreMode(X, l, data) ==
    {[X EXCEPT !.li = l, !.current_data = data,
               !.status[l] = [i \in 1..NumNodes(l) |-> "created"],
               !.received[l] = [i \in 1..NumNodes(l) |-> data]]}

\* Pipeline.process calling layer l with `data`, up to the layer's first
\* await: a PARALLEL layer creates one task per node, each holding the same
\* input_data; a SEQUENTIAL layer calls its first node.
LayerProcess(X, l, data) ==
    LET Y == [X EXCEPT !.li = l, !.current_data = data] IN
    IF layers[l].execution_mode = "sequential"
    THEN SequentialCall(Y, l, 1, data)
    ELSE {[Y EXCEPT !.status[l] = [i \in 1..NumNodes(l) |-> "created"],
                    !.received[l] = [i \in 1..NumNodes(l) |-> data]]}

\* LayerReturned with the nodes of the next layer making their external
\* calls before the layer's input is derived.
LayerReturned_CallsBeforeWiring(X, l, layer_output) ==
    LET Y == [X EXCEPT !.layer_outputs[l] = MapV(layer_output)] IN
    IF l + 1 > NumLayers
    THEN {[Y EXCEPT !.pc = "done", !.current_data = MapV(layer_output),
                    !.result = MapV(layer_output)]}
    ELSE LET r == PrepareInputForNextLayer(original_query, layer_output, l) IN
         IF r.ok
         THEN LayerProcess(Y, l + 1, r.data)
         ELSE {[Y EXCEPT !.pc = "failed", !.error = r.err,
                         !.calls[l + 1] = [i \in 1..NumNodes(l + 1) |-> 1]]}

\* Pipeline.process after layer l returned layer_output: the output is
\* stored, the next layer's input is derived and the next layer is entered;
\* after the last layer the output is returned.
LayerReturned(X, l, layer_output) ==
    LET Y == [X EXCEPT !.layer_outputs[l] = MapV(layer_output)] IN
    IF l + 1 > NumLayers
    THEN {[Y EXCEPT !.pc = "done", !.current_data = MapV(layer_output),
                    !.result = MapV(layer_output)]}
    ELSE LET r == PrepareInputForNextLayer(original_query, layer_output, l) IN
         IF r.ok
         THEN LayerProcess(Y, l + 1, r.data)
         ELSE {[Y EXCEPT !.pc = "failed", !.error = r.err]}

\* Results pairing the node ids with the outputs in order of completion.
Results_CompletionOrder(X, l, n) ==
    LET done == SelectSeq(X.completion, LAMBDA c : c[1] = l) IN
    [i \in 1..n |-> << NodeOf(l, i).node_id, X.out[l][done[i][2]] >>]

\* The results dict of a layer: node ids in insertion order with the outputs.
Results(X, l, n) == [i \in 1..n |-> << NodeOf(l, i).node_id, X.out[l][i] >>]

\* await self.llm_client.generate(prompt) is the only point where a node
\* may be suspended; the client may return any text, raise, or never answer.
\* The exception raised by the external client in the call made by node
\* <<l, i>>.  `call` tells the exception objects of different calls apart; it
\* is not part of the exception's message, which the engine never rewrites.
ExternalError(l, i) == [kind |-> "external", call |-> << l, i >>]

Running(l) == pc = "running" /\ l = li

\* ---------------------------------------------------------------- actions
Init ==
    /\ layers \in Configs
    /\ pc = "idle"
    /\ original_query = None
    /\ li = 0
    /\ current_data = None
    /\ layer_outputs = [l \in 1..NumLayers |-> None]
    /\ status = PerNode("none")
    /\ received = PerNode(None)
    /\ variables = PerNode(None)
    /\ out = PerNode(None)
    /\ excs = PerNode(NoError)
    /\ calls = PerNode(0)
    /\ completion = << >>
    /\ result = None
    /\ error = NoError
    /\ templates = << >>
    /\ node_factory = FALSE
    /\ loaded = None
    /\ load_error = NoError
    /\ validation = None
    /\ returned = None
    /\ client = None
    /\ suspended = None

\* Process keeping what the previous call left in the per-call data.
Process_Retaining(input_data) ==
    /\ pc # "running"
    /\ NumLayers > 0
    /\ original_query' = input_data
    /\ \E X \in LayerProcess([Cur EXCEPT !.pc = "running"], 1, input_data) :
          Become(X)
    /\ UNCHANGED << layers, loadvars >>

\* Pipeline.process(input_data) up to its first suspension, on a pipeline
\* on which no call is in progress.  original_query, current_data and
\* layer_outputs are locals of the call and the tasks are created by it:
\* every call starts from Fresh.  A pipeline without layers raises at once.
Process(input_data) ==
    /\ pc # "running"
    /\ IF NumLayers = 0
       THEN /\ original_query' = None
            /\ Become([Fresh(layers) EXCEPT !.pc = "failed",
                                            !.error = [kind |-> "no_layers"]])
       ELSE /\ original_query' = input_data
            /\ \E X \in LayerProcess([Fresh(layers) EXCEPT !.pc = "running"],
                                      1, input_data) : Become(X)
    /\ UNCHANGED << layers, loadvars >>

\* The event loop runs the task of node <<l, i>> of a PARALLEL layer for the
\* first time (tasks start in creation order).
TaskStart(l, i) ==
    /\ Running(l)
    /\ layers[l].execution_mode = "parallel"
    /\ status[l][i] = "created"
    /\ \A j \in 1..(i - 1) : status[l][j] # "created"
    /\ \E X \in NodeBegin(Cur, l, i, received[l][i]) : Become(X)
    /\ UNCHANGED << layers, original_query, loadvars >>

\* The external call of a task of a PARALLEL layer returns text t: the task
\* completes with t as its result.
ParallelGenerateReturn(l, i, t) ==
    /\ Running(l)
    /\ layers[l].execution_mode = "parallel"
    /\ status[l][i] = "waiting"
    /\ status' = [status EXCEPT ![l][i] = "done"]
    /\ out' = [out EXCEPT ![l][i] = Text(t)]
    /\ completion' = Append(completion, << l, i >>)
    /\ UNCHANGED << loadvars, layers, pc, original_query, li, current_data, layer_outputs,
                    received, variables, excs, calls, result, error >>

\* The external call of a task of a PARALLEL layer raises: the task
\* completes with that exception.
ParallelGenerateRaise(l, i) ==
    /\ Running(l)
    /\ layers[l].execution_mode = "parallel"
    /\ status[l][i] = "waiting"
    /\ status' = [status EXCEPT ![l][i] = "failed"]
    /\ excs' = [excs EXCEPT ![l][i] = ExternalError(l, i)]
    /\ completion' = Append(completion, << l, i >>)
    /\ UNCHANGED << loadvars, layers, pc, original_query, li, current_data, layer_outputs,
                    received, variables, out, calls, result, error >>

\* GatherReady as soon as one task has failed (gather without
\* return_exceptions) or all have completed.
GatherReady_FailFast(st, l) ==
    \/ \E i \in 1..NumNodes(l) : st[l][i] = "failed"
    \/ \A i \in 1..NumNodes(l) : st[l][i] = "done"

\* GatherReady as soon as any one task has completed.
GatherReady_AnyCompleted(st, l) ==
    \E i \in 1..NumNodes(l) : st[l][i] \in {"done", "failed"}

\* asyncio.gather(*tasks, return_exceptions=True) is ready when every task
\* has completed, with a result or with an exception.
GatherReady(st, l) == \A i \in 1..NumNodes(l) : st[l][i] \in {"done", "failed"}

\* ParallelResults leaving the failed nodes out of the results instead of
\* raising.
ParallelResults_SkipFailed(X, l) ==
    LayerReturned(X, l,
        SelectSeq(Results(X, l, NumNodes(l)), LAMBDA r : IsText(r[2])))

\* ParallelResults raising the exception of the node that failed first.
ParallelResults_FirstToFail(X, l) ==
    IF \E i \in 1..NumNodes(l) : X.status[l][i] = "failed"
    THEN LET failed == SelectSeq(X.completion,
                           LAMBDA c : c[1] = l /\ X.status[l][c[2]] = "failed")
         IN {[X EXCEPT !.pc = "failed", !.error = X.excs[l][failed[1][2]]]}
    ELSE LayerReturned(X, l, Results(X, l, NumNodes(l)))

\* Layer._process_parallel after gather: the results loop raises the
\* exception of the first failed node in insertion order; otherwise the
\* layer returns its results to Pipeline.process, which goes on.
ParallelResults(X, l) ==
    IF \E i \in 1..NumNodes(l) : X.status[l][i] = "failed"
    THEN LET f == CHOOSE i \in 1..NumNodes(l) :
                     /\ X.status[l][i] = "failed"
                     /\ \A j \in 1..(i - 1) : X.status[l][j] # "failed"
         IN {[X EXCEPT !.pc = "failed", !.error = X.excs[l][f]]}
    ELSE LayerReturned(X, l, Results(X, l, NumNodes(l)))

\* The layer coroutine resumes from its await of gather.
GatherReturn(l) ==
    /\ Running(l)
    /\ layers[l].execution_mode = "parallel"
    /\ GatherReady(status, l)
    /\ \E X \in ParallelResults(Cur, l) : Become(X)
    /\ UNCHANGED << layers, original_query, loadvars >>

\* SequentialNext calling every node with the layer's own input.
SequentialNext_SameInput(X, l, i, output) ==
    IF i < NumNodes(l)
    THEN SequentialCall(X, l, i + 1, X.current_data)
    ELSE LayerReturned(X, l, Results(X, l, NumNodes(l)))

\* Layer._process_sequential after node i returned `output`: the output is
\* stored and becomes the input of the next node; after the last node the
\* layer returns its results.
SequentialNext(X, l, i, output) ==
    IF i < NumNodes(l)
    THEN SequentialCall(X, l, i + 1, output)
    ELSE LayerReturned(X, l, Results(X, l, NumNodes(l)))

\* The external call of node i of a SEQUENTIAL layer returns text t: the
\* node returns t, the layer stores it and calls the next node with it, or
\* returns its results after the last node.
SequentialGenerateReturn(l, i, t) ==
    /\ Running(l)
    /\ layers[l].execution_mode = "sequential"
    /\ status[l][i] = "waiting"
    /\ LET Y == [Cur EXCEPT !.status[l][i] = "done", !.out[l][i] = Text(t),
                            !.completion = Append(@, << l, i >>)]
       IN \E X \in SequentialNext(Y, l, i, Text(t)) : Become(X)
    /\ UNCHANGED << layers, original_query, loadvars >>

\* SequentialGenerateRaise with a node that invokes the client again after
\* the call raised.
SequentialGenerateRaise_Retry(l, i) ==
    /\ Running(l)
    /\ layers[l].execution_mode = "sequential"
    /\ status[l][i] = "waiting"
    /\ Become([Cur EXCEPT !.calls[l][i] = @ + 1])
    /\ UNCHANGED << layers, original_query, loadvars >>

\* The external call of node i of a SEQUENTIAL layer raises: the exception
\* leaves the node, the layer and Pipeline.process.
SequentialGenerateRaise(l, i) ==
    /\ Running(l)
    /\ layers[l].execution_mode = "sequential"
    /\ status[l][i] = "waiting"
    /\ Become([Cur EXCEPT !.status[l][i] = "failed",
                          !.excs[l][i] = ExternalError(l, i),
                          !.completion = Append(@, << l, i >>),
                          !.pc = "failed",
                          !.error = ExternalError(l, i)])
    /\ UNCHANGED << layers, original_query, loadvars >>

Next ==
    \/ \E q \in Queries : Process(q)
    \/ \E n \in Nodes : TaskStart(n[1], n[2])
    \/ \E n \in Nodes, t \in Texts : ParallelGenerateReturn(n[1], n[2], t)
    \/ \E n \in Nodes : ParallelGenerateRaise(n[1], n[2])
    \/ \E l \in 1..NumLayers : GatherReturn(l)
    \/ \E n \in Nodes, t \in Texts : SequentialGenerateReturn(n[1], n[2], t)
    \/ \E n \in Nodes : SequentialGenerateRaise(n[1], n[2])

Spec == Init /\ [][Next]_vars

\* The event loop runs every task that is ready: a created task is started
\* and a layer whose gather is ready is resumed.  Nothing obliges the
\* external client to answer.
FairSpec ==
    /\ Init
    /\ [][Next]_vars
    /\ WF_vars(\E n \in Nodes : TaskStart(n[1], n[2]))
    /\ WF_vars(\E l \in 1..NumLayers : GatherReturn(l))

TypeOK ==
    /\ pc \in {"idle", "running", "done", "failed"}
    /\ li \in 0..NumLayers
    /\ \A n \in Nodes : status[n[1]][n[2]] \in Statuses

\* ============================================================ load_config
\* ---------------------------------------------------------------- bounds
\* layers in a configuration given to load_config: 0..MaxLoadLayers
MaxLoadLayers == 2
\* nodes in a layer of a configuration given to load_config: 0..MaxLoadNodes
MaxLoadNodes == 2

\* ------------------------------------------------------------- helpers
RECURSIVE Flatten(_)
Flatten(ss) == IF Len(ss) = 0 THEN << >> ELSE Head(ss) \o Flatten(Tail(ss))
Count(q, x) == Cardinality({i \in 1..Len(q) : q[i] = x})
First(S) == CHOOSE i \in S : \A j \in S : i <= j
SeqsUpTo(S, n) == UNION {[1..k -> S] : k \in 0..n}

\* ------------------------------------------------ configuration model
\* LLMConfig: temperature, reasoning_effort, max_tokens (the model name is
\* never looked at by the engine).
Temperatures == {-1, 0, 1, 2, 3}
TokenLimits == {0, 1}
Efforts == {"low", "medium", "high", "default", "extreme"}
LLMConfigs ==
    [temperature : Temperatures, max_tokens : TokenLimits,
     reasoning_effort : Efforts]
GoodLLM == [temperature |-> 1, max_tokens |-> 1, reasoning_effort |-> "low"]
LLMSamples ==
    {GoodLLM,
     [GoodLLM EXCEPT !.temperature = 3],
     [GoodLLM EXCEPT !.max_tokens = 0],
     [GoodLLM EXCEPT !.reasoning_effort = "extreme"]}

\* NodeConfig, LayerConfig, PipelineConfig as ConfigLoader builds them.
NodeConfig(id, tid, llm) ==
    [node_id |-> id, template_id |-> tid, llm_config |-> llm]
LayerConfig(id, nodes) == [layer_id |-> id, nodes |-> nodes]
PipelineConfig(ls) == [layers |-> ls]

\* A template of the engine: a dict with the keys node_epistemic_task,
\* input_context and expected_output, any of which a template file may
\* omit.  input_context is a str or a list; each item is a str, modelled by
\* the placeholder names re.findall finds in it, or something else.
Str(placeholders) == [str |-> placeholders]
NonStr == [int |-> 5]
IsStr(item) == DOMAIN item = {"str"}
EngineTemplate(ctx, token) ==
    [node_epistemic_task |-> "task", input_context |-> ctx,
     expected_output |-> token]

\* The template sets given to load_config: ordered dicts over the ids t1
\* and t2, each absent or one of the bodies below.
T1Bodies ==
    {EngineTemplate(<< Str(<< "query" >>) >>, "t1_out"),
     [node_epistemic_task |-> "task", input_context |-> << Str(<< "query" >>) >>]}
T2Bodies ==
    {EngineTemplate(<< Str(<< p >>) >>, "t2_out") :
        p \in {"n1", "t1_out", "missing_key", "query"}}
    \cup {EngineTemplate(<< Str(<< "n1" >>), NonStr >>, "t2_out"),
          [node_epistemic_task |-> "task", expected_output |-> "t2_out"]}
GoodStore == << << "t1", EngineTemplate(<< Str(<< "query" >>) >>, "t1_out") >> >>
TemplateSets ==
    {s1 \o s2 : s1 \in {<< >>} \cup {<< << "t1", b >> >> : b \in T1Bodies},
                s2 \in {<< >>} \cup {<< << "t2", b >> >> : b \in T2Bodies}}

NodeNames == << "n1", "n2", "n3" >>

\* The arguments of load_config (the contents of the two files): any
\* arrangement of layers and node ids over a valid store; one layer whose
\* nodes carry any LLM parameters; two layers over any template set; one
\* layer whose nodes may break the rules of several validation phases.
StructureLoads ==
    {[config |-> PipelineConfig(ls), templates |-> GoodStore] :
        ls \in SeqsUpTo(
            {LayerConfig(id, ns) :
                id \in {"L1", "L2"},
                ns \in SeqsUpTo({NodeConfig(n, "t1", GoodLLM) : n \in {"n1", "n2"}},
                                MaxLoadNodes)},
            MaxLoadLayers)}
LLMLoads ==
    {[config |-> PipelineConfig(<< LayerConfig("L1",
            [i \in 1..Len(cs) |-> NodeConfig(NodeNames[i], "t1", cs[i])]) >>),
      templates |-> GoodStore] :
        cs \in {c \in SeqsUpTo(LLMConfigs, MaxLoadNodes) :
                  /\ Len(c) > 0
                  /\ \A i \in 2..Len(c) : c[i] \in LLMSamples}}
TemplateLoads ==
    {[config |-> PipelineConfig(
            << LayerConfig("L1", << NodeConfig("n1", a, GoodLLM) >>),
               LayerConfig("L2", << NodeConfig("n2", b, GoodLLM) >>) >>),
      templates |-> ts] :
        a \in {"t1", "t3"}, b \in {"t2", "t3"}, ts \in TemplateSets}
\* One layer of two nodes, each with any id, LLM sample and template id,
\* over a store with or without the template t1.
PhaseLoads ==
    {[config |-> PipelineConfig(<< LayerConfig("L1", << a, b >>) >>),
      templates |-> ts] :
        a \in {NodeConfig("n1", tid, llm) : tid \in {"t1", "t3"}, llm \in LLMSamples},
        b \in {NodeConfig(id, tid, llm) :
                  id \in {"n1", "n2"}, tid \in {"t1", "t3"}, llm \in LLMSamples},
        ts \in {<< >>, GoodStore}}
Loads == StructureLoads \cup LLMLoads \cup TemplateLoads \cup PhaseLoads

\* ------------------------------------------------------ TemplateManager
\* dict.update: the entries of `other` in order, each replacing the value
\* of a key the dict holds (the key keeps its place) or appended.
RECURSIVE Update(_, _)
Update(d, other) ==
    IF Len(other) = 0 THEN d
    ELSE Update(DSet(d, Head(other)[1], Head(other)[2]), Tail(other))

\* LoadTemplates overlaying the store on the given templates: an entry the
\* store holds is kept on a shared id.
LoadTemplates_KeepExisting(store, given, replace) ==
    IF replace THEN given ELSE Update(given, store)

\* TemplateManager.load_templates: the store after the call.
LoadTemplates(store, given, replace) ==
    IF replace THEN given ELSE Update(store, given)

\* ------------------------------------------------------------ Validator
LayerNodeIds(layer) == [i \in 1..Len(layer.nodes) |-> layer.nodes[i].node_id]
ConfigNodes(config) ==
    Flatten([l \in 1..Len(config.layers) |-> config.layers[l].nodes])
HasDuplicates(q) == Len(q) # Cardinality(Range(q))
\* [x for x in q if q.count(x) > 1]
Duplicates(q) == SelectSeq(q, LAMBDA x : Count(q, x) > 1)

\* Validator.validate_pipeline_flow: the ValueError raised, or NoError.
ValidatePipelineFlow(config) ==
    LET ls == config.layers
        layer_ids == [l \in 1..Len(ls) |-> ls[l].layer_id]
        all_node_ids == Flatten([l \in 1..Len(ls) |-> LayerNodeIds(ls[l])])
        within == {l \in 1..Len(ls) : HasDuplicates(LayerNodeIds(ls[l]))}
        empty == {l \in 1..Len(ls) : Len(ls[l].nodes) = 0}
    IN  IF Len(ls) = 0
            THEN [kind |-> "empty_pipeline"]
        ELSE IF HasDuplicates(layer_ids)
            THEN [kind |-> "duplicate_layer_ids",
                  duplicates |-> Duplicates(layer_ids)]
        ELSE IF within # {}
            THEN [kind |-> "duplicate_node_ids_in_layer",
                  layer |-> ls[First(within)].layer_id,
                  duplicates |-> Duplicates(LayerNodeIds(ls[First(within)]))]
        ELSE IF HasDuplicates(all_node_ids)
            THEN [kind |-> "duplicate_node_ids_across_layers",
                  duplicates |-> Duplicates(all_node_ids)]
        ELSE IF empty # {}
            THEN [kind |-> "empty_layer", layer |-> ls[First(empty)].layer_id]
        ELSE NoError

\* LLMError accepting temperatures strictly between the limits only.
LLMError_OpenRange(node) ==
    LET c == node.llm_config IN
    IF ~(0 < c.temperature /\ c.temperature < 2)
        THEN [kind |-> "temperature", node |-> node.node_id,
              value |-> c.temperature]
    ELSE IF c.max_tokens <= 0
        THEN [kind |-> "max_tokens", node |-> node.node_id,
              value |-> c.max_tokens]
    ELSE IF c.reasoning_effort \notin {"low", "medium", "high", "default"}
        THEN [kind |-> "reasoning_effort", node |-> node.node_id,
              value |-> c.reasoning_effort]
    ELSE NoError

\* The checks validate_llm_configs makes on one node, in order: the
\* ValueError raised, or NoError.  LLMConfig is a dataclass: the four
\* required fields are always there.
LLMError(node) ==
    LET c == node.llm_config IN
    IF ~(0 <= c.temperature /\ c.temperature <= 2)
        THEN [kind |-> "temperature", node |-> node.node_id,
              value |-> c.temperature]
    ELSE IF c.max_tokens <= 0
        THEN [kind |-> "max_tokens", node |-> node.node_id,
              value |-> c.max_tokens]
    ELSE IF c.reasoning_effort \notin {"low", "medium", "high", "default"}
        THEN [kind |-> "reasoning_effort", node |-> node.node_id,
              value |-> c.reasoning_effort]
    ELSE NoError

\* Validator.validate_llm_configs: the error of the first node, in layer and
\* node order, that fails a check.
ValidateLLMConfigs(config) ==
    LET nodes == ConfigNodes(config)
        bad == {i \in 1..Len(nodes) : LLMError(nodes[i]) # NoError}
    IN IF bad = {} THEN NoError ELSE LLMError(nodes[First(bad)])

\* Validator.validate_layer_template_compatibility: every referenced
\* template id the store lacks, in one error.  Templates no node refers to
\* are a warning only.
ValidateLayerTemplateCompatibility(config, store) ==
    LET required_templates ==
            {n.template_id : n \in Range(ConfigNodes(config))}
        missing_templates == required_templates \ DKeySet(store)
    IN IF missing_templates # {}
       THEN [kind |-> "missing_templates", template_ids |-> missing_templates]
       ELSE NoError

\* ValidateCompleteConfig looking for the templates before anything else.
ValidateCompleteConfig_TemplatesFirst(config, store) ==
    IF ValidateLayerTemplateCompatibility(config, store) # NoError
    THEN ValidateLayerTemplateCompatibility(config, store)
    ELSE IF ValidatePipelineFlow(config) # NoError THEN ValidatePipelineFlow(config)
    ELSE ValidateLLMConfigs(config)

\* Validator.validate_complete_config: the three checks in order; the first
\* error ends the validation; NoError when True is returned.
ValidateCompleteConfig(config, store) ==
    IF ValidatePipelineFlow(config) # NoError THEN ValidatePipelineFlow(config)
    ELSE IF ValidateLLMConfigs(config) # NoError THEN ValidateLLMConfigs(config)
    ELSE ValidateLayerTemplateCompatibility(config, store)

\* ---------------------------------------------------------- NodeFactory
\* Node._validate_template: the first required key the template lacks.
MissingKeys(template) ==
    SelectSeq(<< "node_epistemic_task", "input_context", "expected_output" >>,
              LAMBDA k : k \notin DOMAIN template)

\* The placeholder names found in the str items of an input context.
ContextPlaceholders(ctx) ==
    Flatten([i \in 1..Len(ctx) |-> IF IsStr(ctx[i]) THEN ctx[i].str ELSE << >>])

\* NodeFactory.create_node: the node built for a NodeConfig, or the
\* ValueError of a missing template or of Node.__init__.
CreateNode(config, store) ==
    IF ~DHas(store, config.template_id)
    THEN [ok |-> FALSE,
          err |-> [kind |-> "no_template", node |-> config.node_id,
                   template_id |-> config.template_id]]
    ELSE LET template == DGet(store, config.template_id) IN
         IF Len(MissingKeys(template)) > 0
         THEN [ok |-> FALSE,
               err |-> [kind |-> "template_missing_key",
                        key |-> MissingKeys(template)[1],
                        node |-> config.node_id]]
         ELSE [ok |-> TRUE,
               node |-> [node_id |-> config.node_id,
                         input_context |->
                             ContextPlaceholders(template.input_context),
                         bad_item |-> \E i \in 1..Len(template.input_context) :
                                         ~IsStr(template.input_context[i]),
                         expected_output |-> template.expected_output]]

\* ------------------------------------------------------------- Pipeline
\* Pipeline._build_layer: the Layer (PARALLEL, the default of
\* Layer.__init__) holding the nodes in order, or the error of the first
\* node that cannot be created.
BuildLayer_Sequential(layer_config, store) ==
    LET made == [i \in 1..Len(layer_config.nodes) |->
                    CreateNode(layer_config.nodes[i], store)]
        bad == {i \in 1..Len(made) : ~made[i].ok}
    IN IF bad # {}
       THEN [ok |-> FALSE, err |-> made[First(bad)].err]
       ELSE [ok |-> TRUE,
             layer |-> [layer_id |-> layer_config.layer_id,
                        execution_mode |-> "sequential",
                        nodes |-> [i \in 1..Len(made) |-> made[i].node]]]

BuildLayer(layer_config, store) ==
    LET made == [i \in 1..Len(layer_config.nodes) |->
                    CreateNode(layer_config.nodes[i], store)]
        bad == {i \in 1..Len(made) : ~made[i].ok}
    IN IF bad # {}
       THEN [ok |-> FALSE, err |-> made[First(bad)].err]
       ELSE [ok |-> TRUE,
             layer |-> [layer_id |-> layer_config.layer_id,
                        execution_mode |-> "parallel",
                        nodes |-> [i \in 1..Len(made) |-> made[i].node]]]

\* Pipeline._build_from_config: without a node factory the call raises
\* and the layers `old` stay; otherwise self.layers and self.layer_order are
\* emptied, then each layer is built and installed in turn; an error of
\* _build_layer leaves the layers installed before it.
BuildFromConfig_NoFactoryCheck(config, store, factory, old) ==
    LET made == [l \in 1..Len(config.layers) |->
                    BuildLayer(config.layers[l], store)]
        bad == {l \in 1..Len(made) : ~made[l].ok}
        upto == IF bad = {} THEN Len(made) ELSE First(bad) - 1
    IN [layers |-> [l \in 1..upto |-> made[l].layer],
        err |-> IF bad = {} THEN NoError ELSE made[First(bad)].err]

BuildFromConfig(config, store, factory, old) ==
    LET made == [l \in 1..Len(config.layers) |->
                    BuildLayer(config.layers[l], store)]
        bad == {l \in 1..Len(made) : ~made[l].ok}
        upto == IF bad = {} THEN Len(made) ELSE First(bad) - 1
    IN IF ~factory
       THEN [layers |-> old, err |-> [kind |-> "no_node_factory"]]
       ELSE [layers |-> [l \in 1..upto |-> made[l].layer],
             err |-> IF bad = {} THEN NoError ELSE made[First(bad)].err]

\* The error of ConfigLoader for a file that is missing or ill-formed.
FileError == [kind |-> "file"]

\* Pipeline.load_config on a constructed pipeline that has loaded nothing
\* yet; `load` is None when a file cannot be loaded.  The templates are
\* loaded into the store, the configuration is validated, the node factory
\* is created and the layers are built; the first error ends the call.
LoadConfig(load, replace) ==
    /\ pc = "idle"
    /\ loaded = None
    /\ IF load = None
       THEN /\ loaded' = [file |-> FALSE]
            /\ load_error' = FileError
            /\ Become(Fresh(layers))
            /\ UNCHANGED << layers, templates, node_factory >>
       ELSE /\ loaded' = [config |-> load.config, templates |-> load.templates,
                          replace |-> replace]
            /\ templates' = LoadTemplates(templates, load.templates, replace)
            /\ LET v == ValidateCompleteConfig(load.config, templates') IN
               IF v # NoError
               THEN /\ load_error' = v
                    /\ Become(Fresh(layers))
                    /\ UNCHANGED << layers, node_factory >>
               ELSE LET b == BuildFromConfig(load.config, templates', TRUE, layers) IN
                    /\ node_factory' = TRUE
                    /\ layers' = b.layers
                    /\ load_error' = b.err
                    /\ Become(Fresh(b.layers))
    /\ UNCHANGED << original_query, validation, returned, client, suspended >>

LoadInit ==
    /\ layers = << >>
    /\ pc = "idle"
    /\ original_query = None
    /\ li = 0
    /\ current_data = None
    /\ layer_outputs = << >>
    /\ status = << >>
    /\ received = << >>
    /\ variables = << >>
    /\ out = << >>
    /\ excs = << >>
    /\ calls = << >>
    /\ completion = << >>
    /\ result = None
    /\ error = NoError
    /\ templates = << >>
    /\ node_factory = FALSE
    /\ loaded = None
    /\ load_error = NoError
    /\ validation = None
    /\ returned = None
    /\ client = None
    /\ suspended = None

LoadNext ==
    \/ /\ loaded = None
       /\ \E load \in Loads \cup {None}, replace \in BOOLEAN :
             LoadConfig(load, replace)
    \/ \E q \in Queries : Process(q)
    \/ \E n \in Nodes : TaskStart(n[1], n[2])
    \/ \E n \in Nodes, t \in Texts : ParallelGenerateReturn(n[1], n[2], t)
    \/ \E n \in Nodes : ParallelGenerateRaise(n[1], n[2])
    \/ \E l \in 1..NumLayers : GatherReturn(l)

\* A pipeline constructed without configuration, then load_config once,
\* then process() calls.
LoadSpec == LoadInit /\ [][LoadNext]_vars

\* ======================================================= TemplateManager
\* A template as TemplateManager.validate_templates expects it: a dict with
\* the keys template (the text, modelled by the placeholder names that
\* occur in it in braces), placeholders (a list of names) and metadata (a
\* dict), any of which may be missing.  Every placeholders value here is a
\* list and every metadata value a dict.
TMTemplate(text, placeholders) ==
    [template |-> text, placeholders |-> placeholders, metadata |-> MapV(<< >>)]
TMBodies ==
    {TMTemplate(Str(<< "name" >>), << "name" >>),
     TMTemplate(Str(<< "who" >>), << "who", "name" >>),
     TMTemplate(NonStr, << "name" >>),
     [template |-> Str(<< "name" >>), placeholders |-> << "name" >>]}

\* The template sets given to load_templates: ordered dicts over the ids a
\* and b.
TMTemplateSets ==
    {<< >>}
    \cup {<< << id, t >> >> : id \in {"a", "b"}, t \in TMBodies}
    \cup {<< << ids[1], t1 >>, << ids[2], t2 >> >> :
             ids \in {<< "a", "b" >>, << "b", "a" >>},
             t1 \in TMBodies, t2 \in TMBodies}

\* ValidateSingleTemplate without the check of the placeholders.
ValidateSingleTemplate_KeysOnly(template_id, template) ==
    LET missing == SelectSeq(<< "template", "placeholders", "metadata" >>,
                             LAMBDA k : k \notin DOMAIN template)
    IN  IF Len(missing) > 0
            THEN [kind |-> "missing_required_key",
                  template_id |-> template_id, key |-> missing[1]]
        ELSE IF ~IsStr(template.template)
            THEN [kind |-> "template_not_str", template_id |-> template_id]
        ELSE NoError

\* TemplateManager._validate_single_template: the ValueError raised, or
\* NoError.
ValidateSingleTemplate(template_id, template) ==
    LET missing == SelectSeq(<< "template", "placeholders", "metadata" >>,
                             LAMBDA k : k \notin DOMAIN template)
    IN  IF Len(missing) > 0
            THEN [kind |-> "missing_required_key",
                  template_id |-> template_id, key |-> missing[1]]
        ELSE IF ~IsStr(template.template)
            THEN [kind |-> "template_not_str", template_id |-> template_id]
        ELSE LET absent == SelectSeq(template.placeholders,
                               LAMBDA p : p \notin Range(template.template.str))
             IN IF Len(absent) > 0
                THEN [kind |-> "placeholder_not_found",
                      template_id |-> template_id, placeholder |-> absent[1]]
                ELSE NoError

\* TemplateManager.validate_templates: the error of the first template, in
\* the order of the store, that is not valid; NoError when True is returned.
ValidateTemplates(store) ==
    LET bad == {i \in 1..Len(store) :
                   ValidateSingleTemplate(store[i][1], store[i][2]) # NoError}
    IN  IF Len(store) = 0 THEN [kind |-> "no_templates"]
        ELSE IF bad # {}
            THEN ValidateSingleTemplate(store[First(bad)][1], store[First(bad)][2])
        ELSE NoError

\* TemplateManager.load_templates(given, replace).
LoadTemplatesCall(given, replace) ==
    /\ loaded' = [before |-> templates, templates |-> given, replace |-> replace]
    /\ templates' = LoadTemplates(templates, given, replace)
    /\ validation' = None
    /\ UNCHANGED << layers, pc, original_query, li, current_data, layer_outputs,
                    status, received, variables, out, excs, calls, completion,
                    result, error, node_factory, load_error, returned, client, suspended >>

\* TemplateManager.validate_templates() on the store as it is.
ValidateTemplatesCall ==
    /\ validation = None
    /\ validation' = ValidateTemplates(templates)
    /\ UNCHANGED << layers, pc, original_query, li, current_data, layer_outputs,
                    status, received, variables, out, excs, calls, completion,
                    result, error, templates, node_factory, loaded, load_error,
                    returned, client, suspended >>

TemplateNext ==
    \/ \E given \in TMTemplateSets, replace \in BOOLEAN :
          LoadTemplatesCall(given, replace)
    \/ ValidateTemplatesCall

\* A TemplateManager constructed empty, then any calls of load_templates
\* and validate_templates.
TemplateSpec == LoadInit /\ [][TemplateNext]_vars

\* ========================================================== ConfigLoader
\* The JSON values a layer file may hold.  A JSON object is a function from
\* the keys it has to their values; a list is tagged to tell it from any
\* other value.
JList(s) == [list |-> s]
NotAList == [number |-> 5]
IsList(v) == DOMAIN v = {"list"}

\* required_keys of _parse_layer_config, _parse_node_config and
\* _parse_llm_config, in the order the loops test them.
LayerKeys == << "id", "name", "description", "nodes" >>
NodeKeys == << "id", "name", "description", "type", "template_id", "llm_config" >>
LLMKeys == << "model", "temperature", "reasoning_effort", "max_tokens" >>

\* str(i) of the 0-based index of the l-th item of a list.
Index == << "0", "1", "2", "3" >>

\* The layer files: absent, not JSON, an object without `layers`, an object
\* whose `layers` is not a list, or nl layers of nn nodes each from which
\* the keys listed in `drop` are left out and in which the `nodes` of the
\* layers in `scalar` is not a list.  A site is <<"layer", l, 0, key>>,
\* <<"node", l, i, key>> or <<"llm", l, i, key>>; one key is left out, or
\* one key and an id.
Sites(nl, nn) ==
    {<< "layer", l, 0, k >> : l \in 1..nl, k \in Range(LayerKeys)}
    \cup {<< "node", l, i, k >> : l \in 1..nl, i \in 1..nn, k \in Range(NodeKeys)}
    \cup {<< "llm", l, i, k >> : l \in 1..nl, i \in 1..nn, k \in Range(LLMKeys)}
Kept(keys, drop, kind, l, i) ==
    {k \in Range(keys) : << kind, l, i, k >> \notin drop}
LLMData(drop, l, i) ==
    [k \in Kept(LLMKeys, drop, "llm", l, i) |->
        IF k \in {"temperature", "max_tokens"} THEN 1
        ELSE IF k = "model" THEN "m" ELSE "low"]
NodeData(drop, l, i) ==
    [k \in Kept(NodeKeys, drop, "node", l, i) |->
        IF k = "id" THEN NodeIdTable[l][i]
        ELSE IF k = "llm_config" THEN LLMData(drop, l, i)
        ELSE IF k = "template_id" THEN "t1" ELSE "text"]
LayerData(drop, scalar, nn, l) ==
    [k \in Kept(LayerKeys, drop, "layer", l, 0) |->
        IF k = "id" THEN LayerIds[l]
        ELSE IF k = "nodes"
            THEN IF l \in scalar THEN NotAList
                 ELSE JList([i \in 1..nn |-> NodeData(drop, l, i)])
        ELSE "text"]
LayerFile(nl, nn, drop, scalar) ==
    [file |-> "json",
     data |-> [layers |-> JList([l \in 1..nl |-> LayerData(drop, scalar, nn, l)])]]
AbsentFile == [file |-> "absent"]
MalformedFile == [file |-> "malformed"]
LayerFiles ==
    {AbsentFile, MalformedFile,
     [file |-> "json", data |-> [other |-> "text"]],
     [file |-> "json", data |-> [layers |-> NotAList]]}
    \cup UNION {UNION {
            {LayerFile(nl, nn, drop, {}) :
                drop \in {{}} \cup {{a, b} : a \in Sites(nl, nn),
                                     b \in {c \in Sites(nl, nn) : c[4] = "id"}}}
            \cup {LayerFile(nl, nn, {}, {l}) : l \in 1..nl} :
          nn \in 0..MaxLoadNodes} : nl \in 0..MaxLoadLayers}

\* The exceptions of ConfigLoader: the exception class, the fixed text of
\* the message and the values formatted into it.
LoaderError(type, text, args) == [type |-> type, text |-> text, args |-> args]
Raised(e) == [ok |-> FALSE, err |-> e]
Returned(v) == [ok |-> TRUE, value |-> v]

\* `for key in required_keys: if key not in data: raise`: the positions of
\* the keys that `data` lacks.
Lacking(keys, data) == {j \in 1..Len(keys) : keys[j] \notin DOMAIN data}

\* A loop that parses the items of a list in turn: the first exception
\* raised, or the list of the parsed items.
ParseEach(rs) ==
    LET bad == {i \in 1..Len(rs) : ~rs[i].ok}
    IN IF bad # {} THEN rs[First(bad)]
       ELSE Returned([i \in 1..Len(rs) |-> rs[i].value])

\* ConfigLoader._parse_llm_config.
ParseLLMConfig(llm_data) ==
    LET lacking == Lacking(LLMKeys, llm_data)
    IN IF lacking # {}
       THEN Raised(LoaderError("ValueError", "LLM config missing required key",
                               << LLMKeys[First(lacking)] >>))
       ELSE Returned([temperature |-> llm_data.temperature,
                      max_tokens |-> llm_data.max_tokens,
                      reasoning_effort |-> llm_data.reasoning_effort])

\* ConfigLoader._parse_node_config.
ParseNodeConfig(node_data) ==
    LET lacking == Lacking(NodeKeys, node_data)
    IN IF lacking # {}
       THEN Raised(LoaderError("ValueError", "Node config missing required key",
                               << NodeKeys[First(lacking)] >>))
       ELSE LET llm == ParseLLMConfig(node_data.llm_config)
            IN IF ~llm.ok THEN llm
               ELSE Returned(NodeConfig(node_data.id, node_data.template_id,
                                        llm.value))

\* ConfigLoader._parse_layer_config.
ParseLayerConfig(layer_data) ==
    LET lacking == Lacking(LayerKeys, layer_data)
    IN IF lacking # {}
       THEN Raised(LoaderError("ValueError", "Layer config missing required key",
                               << LayerKeys[First(lacking)] >>))
       ELSE IF ~IsList(layer_data.nodes)
       THEN Raised(LoaderError("ValueError", "Layer nodes must be a list",
                               << layer_data.id >>))
       ELSE LET ns == layer_data.nodes.list
                nodes == ParseEach([i \in 1..Len(ns) |-> ParseNodeConfig(ns[i])])
            IN IF ~nodes.ok THEN nodes
               ELSE Returned(LayerConfig(layer_data.id, nodes.value))

\* ConfigLoader.load_layer_config.
LoadLayerConfig(file) ==
    IF file.file = "absent"
    THEN Raised(LoaderError("FileNotFoundError", "Layer config file not found",
                            << >>))
    ELSE IF file.file = "malformed"
    THEN Raised(LoaderError("ValueError", "Invalid JSON in layer config file",
                            << >>))
    ELSE IF "layers" \notin DOMAIN file.data
    THEN Raised(LoaderError("ValueError", "Layer config missing 'layers' key",
                            << >>))
    ELSE IF ~IsList(file.data.layers)
    THEN Raised(LoaderError("ValueError", "'layers' must be a list", << >>))
    ELSE LET ls == file.data.layers.list
             parsed == ParseEach([l \in 1..Len(ls) |-> ParseLayerConfig(ls[l])])
         IN IF ~parsed.ok THEN parsed
            ELSE Returned(PipelineConfig(parsed.value))

\* A call of ConfigLoader.load_layer_config on a file.
LoadLayerConfigCall(file) ==
    /\ loaded = None
    /\ loaded' = file
    /\ LET r == LoadLayerConfig(file)
       IN IF r.ok
          THEN returned' = r.value /\ load_error' = NoError
          ELSE returned' = None /\ load_error' = r.err
    /\ UNCHANGED << layers, pc, original_query, li, current_data, layer_outputs,
                    status, received, variables, out, excs, calls, completion,
                    result, error, templates, node_factory, validation,
                    client, suspended >>

LoaderNext ==
    /\ loaded = None
    /\ \E file \in LayerFiles : LoadLayerConfigCall(file)

\* A ConfigLoader reading one layer file.
LoaderSpec == LoadInit /\ [][LoaderNext]_vars

\* ============================================== core LLMClient.generate_text
\* NetworkConfig.max_retries: ge=0, le=5.
MaxRetries == 5
RetrySettings == 0..MaxRetries
\* LLMConfig.retry_delay, in seconds.
RetryDelays == {1, 2}
\* The exceptions chat.completions.create may raise.
RequestErrors == {[kind |-> "timeout"], [kind |-> "rate_limit"]}
\* message.content of a response: a text, the empty text, or None.
Contents == {Text(t) : t \in Texts} \cup {Text(""), None}
ClientConfigs ==
    [max_retries : RetrySettings, retry_delay : RetryDelays,
     mock_responses : BOOLEAN]

\* The call before it is made.
NoCall(config) ==
    [config |-> config, pc |-> "idle", attempt |-> 0, requests |-> 0,
     sleeps |-> << >>, failures |-> << >>, response |-> None,
     result |-> None, error |-> NoError]

\* Where the generate_text call is: "idle" before a client makes one.
ClientPc == IF client = None THEN "idle" ELSE client.pc

\* _build_mock_text_response for a prompt without a question line.
MockText == Text("Mock reformulated question for testing?")

\* LLMClient(config).generate_text(prompt) up to its first await: the mock
\* text is returned, or the loop over range(max_retries) makes its first
\* request, or the loop is empty and "" is returned.
GenerateText(config) ==
    /\ ClientPc \in {"idle", "returned", "raised"}
    /\ client' =
          IF config.mock_responses
          THEN [NoCall(config) EXCEPT !.pc = "returned", !.result = MockText]
          ELSE IF config.max_retries <= 0
          THEN [NoCall(config) EXCEPT !.pc = "returned", !.result = Text("")]
          ELSE [NoCall(config) EXCEPT !.pc = "requesting", !.requests = 1]
    /\ UNCHANGED << layers, pc, original_query, li, current_data, layer_outputs,
                    status, received, variables, out, excs, calls, completion,
                    result, error, templates, node_factory, loaded, load_error,
                    validation, returned, suspended >>

\* The awaited request returns a response: `content or ""` is returned.
RequestReturn(content) ==
    /\ ClientPc = "requesting"
    /\ client' = [client EXCEPT !.pc = "returned", !.response = content,
                                !.result = IF content \in {None, Text("")}
                                           THEN Text("") ELSE content]
    /\ UNCHANGED << layers, pc, original_query, li, current_data, layer_outputs,
                    status, received, variables, out, excs, calls, completion,
                    result, error, templates, node_factory, loaded, load_error,
                    validation, returned, suspended >>

\* The awaited request raises e: the call sleeps retry_delay * 2^attempt
\* when another attempt remains, and raises e otherwise.
RequestRaise(e) ==
    /\ ClientPc = "requesting"
    /\ client' =
          IF client.attempt < client.config.max_retries - 1
          THEN [client EXCEPT
                    !.pc = "sleeping",
                    !.failures = Append(@, e),
                    !.sleeps = Append(@, client.config.retry_delay
                                          * (2 ^ client.attempt))]
          ELSE [client EXCEPT !.pc = "raised", !.failures = Append(@, e),
                              !.error = e]
    /\ UNCHANGED << layers, pc, original_query, li, current_data, layer_outputs,
                    status, received, variables, out, excs, calls, completion,
                    result, error, templates, node_factory, loaded, load_error,
                    validation, returned, suspended >>

\* asyncio.sleep returns: the next attempt makes its request.
SleepReturn ==
    /\ ClientPc = "sleeping"
    /\ client' = [client EXCEPT !.pc = "requesting", !.attempt = @ + 1,
                                !.requests = @ + 1]
    /\ UNCHANGED << layers, pc, original_query, li, current_data, layer_outputs,
                    status, received, variables, out, excs, calls, completion,
                    result, error, templates, node_factory, loaded, load_error,
                    validation, returned, suspended >>

ClientNext ==
    \/ \E config \in ClientConfigs : GenerateText(config)
    \/ \E content \in Contents : RequestReturn(content)
    \/ \E e \in RequestErrors : RequestRaise(e)
    \/ SleepReturn

\* Clients of any configuration, each making one generate_text call.
ClientSpec == LoadInit /\ [][ClientNext]_vars

\* ====================================================== prompt rendering
\* A Python str as the sequence of its pieces: a chunk of text without
\* braces, or the text `{name}`.
Chunk(c) == [chunk |-> c]
Hole(name) == [hole |-> name]

\* str.replace(f"{{{name}}}", value): every occurrence of `{name}` in text
\* gives way to value.
RECURSIVE Replace(_, _, _)
Replace(text, name, value) ==
    IF Len(text) = 0 THEN << >>
    ELSE (IF Head(text) = Hole(name) THEN value ELSE << Head(text) >>)
         \o Replace(Tail(text), name, value)

\* `for var_name, var_value in variables.items(): text = text.replace(...)`:
\* one replace after the other over the text as it stands, from the k-th
\* binding on.
RECURSIVE ReplaceEach(_, _, _)
ReplaceEach(text, bindings, k) ==
    IF k > Len(bindings) THEN text
    ELSE ReplaceEach(Replace(text, bindings[k][1], bindings[k][2]), bindings, k + 1)

\* "\n\n".join(parts)
RECURSIVE Join(_)
Join(parts) ==
    IF Len(parts) = 0 THEN << >>
    ELSE IF Len(parts) = 1 THEN parts[1]
    ELSE parts[1] \o << Chunk("\n\n") >> \o Join(Tail(parts))

\* Node._render_prompt for a template whose input_context is a str
\* ([text |-> ...]) or a list of str ([list |-> ...]), without instructions.
RenderPrompt(input_context, bindings) ==
    LET context ==
            IF DOMAIN input_context = {"list"}
            THEN Join([i \in 1..Len(input_context.list) |->
                          ReplaceEach(input_context.list[i], bindings, 1)])
            ELSE ReplaceEach(input_context.text, bindings, 1)
    IN Join(<< << Chunk("[TASK] task") >>,
               << Chunk("[CONTEXT] ") >> \o context,
               << Chunk("[EXPECTED OUTPUT] token") >> >>)

\* TemplateManager.render_template: the declared placeholders the variables
\* lack are reported; otherwise the declared placeholders are replaced in
\* their order.
RenderTemplate(template, bindings) ==
    LET missing_vars == SelectSeq(template.placeholders,
                                  LAMBDA p : ~DHas(bindings, p))
    IN IF Len(missing_vars) > 0
       THEN Raised([kind |-> "missing_variables", names |-> missing_vars])
       ELSE Returned(ReplaceEach(template.template,
                [k \in 1..Len(template.placeholders) |->
                    << template.placeholders[k],
                       DGet(bindings, template.placeholders[k]) >>], 1))

\* The values bound to variables: a text, or a text that holds `{a}` or `{b}`.
RenderValues ==
    {<< Chunk("T1") >>, << Chunk("see "), Hole("b") >>, << Hole("a") >>}
\* The variable mappings, in their insertion order.
RenderBindings ==
    {<< << "a", va >> >> : va \in RenderValues}
    \cup {<< << "a", va >>, << "b", vb >> >> : va, vb \in RenderValues}
    \cup {<< << "b", vb >>, << "a", va >> >> : va, vb \in RenderValues}
RenderTexts ==
    {<< Hole("a") >>,
     << Chunk("x "), Hole("a"), Chunk(" y "), Hole("b") >>,
     << Hole("b"), Hole("a"), Hole("a") >>}
InputContexts ==
    {[text |-> t] : t \in RenderTexts}
    \cup {[list |-> << t, u >>] : t, u \in RenderTexts}
PlaceholderLists == {<< "a" >>, << "a", "b" >>, << "b", "a" >>}

\* A call of Node._render_prompt.
RenderPromptCall(input_context, bindings) ==
    /\ loaded = None
    /\ loaded' = [input_context |-> input_context, variables |-> bindings]
    /\ returned' = RenderPrompt(input_context, bindings)
    /\ UNCHANGED << layers, pc, original_query, li, current_data, layer_outputs,
                    status, received, variables, out, excs, calls, completion,
                    result, error, templates, node_factory, load_error,
                    validation, client, suspended >>

\* A call of TemplateManager.render_template.
RenderTemplateCall(template, bindings) ==
    /\ loaded = None
    /\ loaded' = [template |-> template, variables |-> bindings]
    /\ LET r == RenderTemplate(template, bindings)
       IN IF r.ok
          THEN returned' = r.value /\ load_error' = NoError
          ELSE returned' = None /\ load_error' = r.err
    /\ UNCHANGED << layers, pc, original_query, li, current_data, layer_outputs,
                    status, received, variables, out, excs, calls, completion,
                    result, error, templates, node_factory, validation,
                    client, suspended >>

RenderNext ==
    \/ /\ loaded = None
       /\ \E input_context \in InputContexts, bindings \in RenderBindings :
             RenderPromptCall(input_context, bindings)
    \/ /\ loaded = None
       /\ \E text \in RenderTexts, ps \in PlaceholderLists,
             bindings \in RenderBindings :
             RenderTemplateCall([template |-> text, placeholders |-> ps],
                                bindings)

\* One rendering of a prompt or of a stored template.
RenderSpec == LoadInit /\ [][RenderNext]_vars

\* ============================================= construction and add_layer
\* add_layer calls on one pipeline
MaxAdded == 1

\* Layer objects made directly with Layer(config, execution_mode) and two
\* add_node calls, under a new layer id or the id of a configured layer.
AddableLayers ==
    {[layer_id |-> id, execution_mode |-> mode,
      nodes |-> [i \in 1..2 |->
                    [node_id |-> NodeIdTable[2][i],
                     input_context |-> << "query" >>,
                     bad_item |-> FALSE,
                     expected_output |-> TokenTable[2][i]]]] :
        id \in {"A1", "L1"}, mode \in Modes}

\* The files given to load_config: a layer of one node, two layers, and a
\* configuration without layers.
BuildLoads ==
    {[config |-> PipelineConfig(ls),
      templates |-> << << "t1", EngineTemplate(<< Str(<< "query" >>) >>, "t1_out") >>,
                       << "t2", EngineTemplate(<< Str(<< "n1" >>) >>, "t2_out") >> >>] :
        ls \in {<< >>,
                << LayerConfig("L1", << NodeConfig("n1", "t1", GoodLLM) >>) >>,
                << LayerConfig("L1", << NodeConfig("n1", "t1", GoodLLM) >>),
                   LayerConfig("L2", << NodeConfig("n2", "t2", GoodLLM) >>) >>}}

\* Pipeline(config=c) raised: there is no pipeline object.
PipelineExists ==
    ~(loaded # None /\ "constructor" \in DOMAIN loaded /\ load_error # NoError)

\* Pipeline(config=c) for a PipelineConfig c, which is truthy whatever its
\* layers: after the fields are initialised, _build_from_config(c) runs.
ConstructWithConfig(config) ==
    /\ loaded = None
    /\ layers = << >>
    /\ pc = "idle"
    /\ load_error = NoError
    /\ LET b == BuildFromConfig(config, templates, node_factory, layers)
       IN /\ layers' = b.layers
          /\ load_error' = b.err
          /\ Become(Fresh(b.layers))
    /\ loaded' = [constructor |-> config]
    /\ UNCHANGED << original_query, templates, node_factory, validation,
                    returned, client, suspended >>

\* The layers that add_layer calls have installed: load_config installs
\* the layers of the configuration only, under their ids.
AddedLayers ==
    {l \in 1..NumLayers :
        ~(loaded # None /\ "config" \in DOMAIN loaded
          /\ layers[l].layer_id \in
                {loaded.config.layers[k].layer_id :
                    k \in 1..Len(loaded.config.layers)})}

\* add_layer's position: None appends, an index is that of list.insert.
Insert(q, position, x) ==
    IF position = None THEN Append(q, x)
    ELSE SubSeq(q, 1, position.index) \o << x >>
         \o SubSeq(q, position.index + 1, Len(q))

\* Pipeline.add_layer(layer, position) between process() calls: a layer id
\* the pipeline holds is refused, otherwise the layer is installed.
AddLayer(layer, position) ==
    /\ pc # "running"
    /\ Cardinality(AddedLayers) < MaxAdded
    /\ IF \E l \in 1..NumLayers : layers[l].layer_id = layer.layer_id
       THEN /\ load_error' = [kind |-> "layer_exists", layer |-> layer.layer_id]
            /\ UNCHANGED << layers, pc, li, current_data, layer_outputs, status,
                            received, variables, out, excs, calls, completion,
                            result, error >>
       ELSE /\ layers' = Insert(layers, position, layer)
            /\ Become(Fresh(layers'))
            /\ UNCHANGED load_error
    /\ UNCHANGED << original_query, templates, node_factory, loaded, validation,
                    returned, client, suspended >>

BuildNext ==
    \/ \E c \in {b.config : b \in BuildLoads} : ConstructWithConfig(c)
    \/ /\ loaded = None
       /\ \E load \in BuildLoads, replace \in BOOLEAN : LoadConfig(load, replace)
    \/ /\ PipelineExists
       /\ \E layer \in AddableLayers, position \in {None, [index |-> 0]} :
             AddLayer(layer, position)
    \/ PipelineExists /\ \E q \in Queries : Process(q)
    \/ \E n \in Nodes : TaskStart(n[1], n[2])
    \/ \E n \in Nodes, t \in Texts : ParallelGenerateReturn(n[1], n[2], t)
    \/ \E n \in Nodes : ParallelGenerateRaise(n[1], n[2])
    \/ \E l \in 1..NumLayers : GatherReturn(l)
    \/ \E n \in Nodes, t \in Texts : SequentialGenerateReturn(n[1], n[2], t)
    \/ \E n \in Nodes : SequentialGenerateRaise(n[1], n[2])

\* A pipeline object under construction, then load_config, add_layer and
\* process() calls on it.
BuildSpec == LoadInit /\ [][BuildNext]_vars

\* ================================ two process() calls on one pipeline
\* Pipelines on which two calls run: a PARALLEL layer of two nodes or a
\* SEQUENTIAL layer of two nodes, then a layer of one node that reads the
\* query and the first layer's output.
SharedPipelines ==
    LET SharedNode(l, i, ctx) ==
            [node_id |-> NodeIdTable[l][i], input_context |-> ctx,
             bad_item |-> FALSE, expected_output |-> TokenTable[l][i]] IN
    {<< [layer_id |-> LayerIds[1], execution_mode |-> mode,
         nodes |-> << SharedNode(1, 1, << "query" >>),
                      SharedNode(1, 2, << "query" >>) >>],
        [layer_id |-> LayerIds[2], execution_mode |-> "parallel",
         nodes |-> << SharedNode(2, 1, ctx) >>] >> :
        mode \in Modes,
        ctx \in {<< "query", NodeIdTable[1][1] >>, << "query", "input" >>}}

\* The inputs of the two calls.
CallQueries == {Text("Q"), MapV(<< <<"query", Text("Q")>> >>)}

TwoCallInit ==
    /\ layers \in SharedPipelines
    /\ pc = "idle"
    /\ original_query = None
    /\ li = 0
    /\ current_data = None
    /\ layer_outputs = [l \in 1..NumLayers |-> None]
    /\ status = PerNode("none")
    /\ received = PerNode(None)
    /\ variables = PerNode(None)
    /\ out = PerNode(None)
    /\ excs = PerNode(NoError)
    /\ calls = PerNode(0)
    /\ completion = << >>
    /\ result = None
    /\ error = NoError
    /\ templates = << >>
    /\ node_factory = FALSE
    /\ loaded = None
    /\ load_error = NoError
    /\ validation = None
    /\ returned = None
    /\ client = None
    /\ suspended = None

\* A second Pipeline.process(input_data) starts while the first call is
\* suspended at an await: original_query, current_data and layer_outputs
\* are new locals and the tasks are new; the first call is kept with its
\* locals and its tasks.
ProcessConcurrently(input_data) ==
    /\ pc = "running"
    /\ suspended = None
    /\ suspended' = [original_query |-> original_query, call |-> Cur]
    /\ original_query' = input_data
    /\ \E X \in LayerProcess([Fresh(layers) EXCEPT !.pc = "running"],
                              1, input_data) : Become(X)
    /\ UNCHANGED << layers, templates, node_factory, loaded, load_error,
                    validation, returned, client >>

\* Resume with original_query held by the pipeline object instead of the
\* frame of the call.
Resume_SharedQuery ==
    /\ suspended # None
    /\ suspended' = [original_query |-> original_query, call |-> Cur]
    /\ Become(suspended.call)
    /\ UNCHANGED << layers, original_query, templates, node_factory, loaded,
                    load_error, validation, returned, client >>

\* The event loop leaves the call it was running at an await (layer.process
\* in Pipeline.process, gather in the layer, generate in the node) and
\* resumes the other call: each call goes on with its own frame.
Resume ==
    /\ suspended # None
    /\ suspended' = [original_query |-> original_query, call |-> Cur]
    /\ original_query' = suspended.original_query
    /\ Become(suspended.call)
    /\ UNCHANGED << layers, templates, node_factory, loaded, load_error,
                    validation, returned, client >>

TwoCallNext ==
    \/ suspended = None /\ \E q \in CallQueries : Process(q)
    \/ \E q \in CallQueries : ProcessConcurrently(q)
    \/ Resume
    \/ \E n \in Nodes : TaskStart(n[1], n[2])
    \/ \E n \in Nodes, t \in Texts : ParallelGenerateReturn(n[1], n[2], t)
    \/ \E n \in Nodes : ParallelGenerateRaise(n[1], n[2])
    \/ \E l \in 1..NumLayers : GatherReturn(l)
    \/ \E n \in Nodes, t \in Texts : SequentialGenerateReturn(n[1], n[2], t)
    \/ \E n \in Nodes : SequentialGenerateRaise(n[1], n[2])

\* Two process() calls interleaved on one built pipeline.
TwoCallSpec == TwoCallInit /\ [][TwoCallNext]_vars

\* ================================================================ claims
Placeholders(l) ==
    UNION {Range(NodeOf(l, i).input_context) : i \in 1..NumNodes(l)}
NodeIds(l) == {NodeOf(l, i).node_id : i \in 1..NumNodes(l)}
LayerDone(l) == \A i \in 1..NumNodes(l) : status[l][i] = "done"
Position(n) == CHOOSE k \in 1..Len(SortedNames) : SortedNames[k] = n
IsSorted(q) == \A a, b \in 1..Len(q) : a < b => Position(q[a]) < Position(q[b])

\* ---- C1
\* The nodes of layer l whose template declares expected_output p.
TokenProducers(l, p) ==
    {j \in 1..NumNodes(l) : NodeOf(l, j).expected_output = p}
\* Every placeholder of layer l+1 is `query` or an expected-output token of
\* layer l, and at least one is a token.
TokenWired(l) ==
    /\ \A p \in Placeholders(l + 1) : p = "query" \/ TokenProducers(l, p) # {}
    /\ \E p \in Placeholders(l + 1) : TokenProducers(l, p) # {}

\* C1: when the nodes of layer l+1 name the expected-output tokens of the
\* nodes of layer l, process() does not fail at that transition: once layer l
\* has completed, the first node of layer l+1 is given a mapping that binds
\* each token to the text of the node declaring it and `query` to the
\* original query; and a returned result is the last layer's output.
C1_TokenWiringDelivers ==
    /\ \A l \in 1..(NumLayers - 1) :
        (TokenWired(l) /\ LayerDone(l) /\ IsMap(layer_outputs[l])) =>
            /\ ~(pc = "failed" /\ li = l)
            /\ IsMap(received[l + 1][1])
            /\ DHas(received[l + 1][1].map, "query")
            /\ DGet(received[l + 1][1].map, "query") = original_query
            /\ \A p \in Placeholders(l + 1) \ {"query"} :
                /\ DHas(received[l + 1][1].map, p)
                /\ \A j \in TokenProducers(l, p) :
                      DGet(received[l + 1][1].map, p) = out[l][j]
    /\ pc = "done" => result = layer_outputs[NumLayers]

\* ---- C2
\* The value that layer l's output holds under key k, from the node outputs.
OutputOf(l, k) ==
    out[l][CHOOSE j \in 1..NumNodes(l) : NodeOf(l, j).node_id = k]
\* v is the whole output mapping of layer l.
IsWholeOutput(v, l) ==
    /\ IsMap(v)
    /\ Len(v.map) = NumNodes(l)
    /\ \A j \in 1..NumNodes(l) :
          v.map[j] = << NodeOf(l, j).node_id, out[l][j] >>

\* C2: the mapping given to layer l (l > 1) has exactly the keys `query` and
\* the placeholders of layer l's input contexts; `query` is bound to the
\* original input of process(), `input` to the whole output mapping of layer
\* l-1, and any other name to the output of the node of layer l-1 whose id
\* is exactly that name.
C2_ResolutionOrder ==
    \A l \in 2..NumLayers :
        status[l][1] # "none" =>
            LET m == received[l][1] IN
            /\ IsMap(m)
            /\ DKeySet(m.map) = Placeholders(l) \cup {"query"}
            /\ \A k \in DKeySet(m.map) :
                IF k = "query" THEN DGet(m.map, k) = original_query
                ELSE IF k = "input" THEN IsWholeOutput(DGet(m.map, k), l - 1)
                ELSE /\ k \in NodeIds(l - 1)
                     /\ DGet(m.map, k) = OutputOf(l - 1, k)

\* A third layer was given `query`, `input` and a node id of the second.
C2_Witness ==
    /\ NumLayers >= 3
    /\ status[3][1] # "none"
    /\ IsMap(received[3][1])
    /\ {"query", "input"} \subseteq DKeySet(received[3][1].map)
    /\ DKeySet(received[3][1].map) \cap NodeIds(2) # {}

\* ---- C3
\* The placeholders of layer l+1 that neither a reserved name nor layer l's
\* output satisfies.
Unresolved(l) == Placeholders(l + 1) \ ({"query", "input"} \cup NodeIds(l))

\* C3: when layer l has completed and layer l+1 requires a placeholder that
\* is neither `query`, `input` nor a key of layer l's output, process() has
\* raised an error holding such a placeholder, the id of a node of layer l+1
\* that requires it, the ids of layer l+1 and of layer l, and the sorted list
\* of all keys of layer l's output.
C3_UnresolvedPlaceholderReported ==
    \A l \in 1..(NumLayers - 1) :
        (LayerDone(l) /\ IsMap(layer_outputs[l]) /\ Unresolved(l) # {}) =>
            /\ pc = "failed"
            /\ error.kind = "configuration"
            /\ error.placeholder \in Unresolved(l)
            /\ \E i \in 1..NumNodes(l + 1) :
                  /\ NodeOf(l + 1, i).node_id = error.node
                  /\ error.placeholder \in Range(NodeOf(l + 1, i).input_context)
            /\ error.layer = layers[l + 1].layer_id
            /\ error.previous = layers[l].layer_id
            /\ Range(error.available) = NodeIds(l)
            /\ Len(error.available) = NumNodes(l)
            /\ IsSorted(error.available)

\* process() failed on a placeholder after a layer that produced two keys.
C3_Witness ==
    /\ pc = "failed"
    /\ error.kind = "configuration"
    /\ li >= 1
    /\ NumNodes(li) = 2
    /\ LayerDone(li)

\* ---- C4
\* C4: a node of layer l+1 has been started (its process() called, its task
\* created, or an external call issued for it) only if every node of layer l
\* has completed.
C4_LayersInOrder ==
    \A l \in 1..(NumLayers - 1) : \A i \in 1..NumNodes(l + 1) :
        (status[l + 1][i] # "none" \/ calls[l + 1][i] > 0) => LayerDone(l)

\* A node runs after a preceding PARALLEL layer of two nodes.
C4_Witness ==
    \E l \in 1..(NumLayers - 1) :
        /\ layers[l].execution_mode = "parallel"
        /\ NumNodes(l) = 2
        /\ status[l + 1][1] = "waiting"

\* ---- C5
\* C5: the mapping returned by a PARALLEL layer has the layer's node ids as
\* keys, in configuration order, each bound to the text returned to that
\* very node, whatever the order in which the tasks completed.
C5_ParallelResultsByNode ==
    \A l \in 1..NumLayers :
        (layers[l].execution_mode = "parallel" /\ IsMap(layer_outputs[l])) =>
            /\ IsWholeOutput(layer_outputs[l], l)
            /\ \A i \in 1..NumNodes(l) : IsText(out[l][i])

\* A PARALLEL layer returned after its second node completed before its
\* first, the two with different texts.
C5_Witness ==
    \E l \in 1..NumLayers :
        /\ layers[l].execution_mode = "parallel"
        /\ NumNodes(l) >= 2
        /\ IsMap(layer_outputs[l])
        /\ out[l][1] # out[l][2]
        /\ \E a, b \in 1..Len(completion) :
              a < b /\ completion[a] = << l, 2 >> /\ completion[b] = << l, 1 >>

\* ---- C6
\* C6: once a node of a PARALLEL layer has failed, that layer never returns
\* a mapping: no output of the layer is stored, no later layer is entered,
\* process() does not return, and when process() has ended it has raised the
\* exception of a failed node of that layer.
C6_NoPartialResult ==
    \A l \in 1..NumLayers :
        (/\ layers[l].execution_mode = "parallel"
         /\ \E i \in 1..NumNodes(l) : status[l][i] = "failed") =>
            /\ layer_outputs[l] = None
            /\ result = None
            /\ pc \in {"running", "failed"}
            /\ li = l
            /\ \A n \in Nodes : n[1] > l => status[n[1]][n[2]] = "none"
            /\ pc = "failed" =>
                  \E i \in 1..NumNodes(l) :
                      status[l][i] = "failed" /\ error = excs[l][i]

\* A PARALLEL layer ended in failure with one node failed and one succeeded.
C6_Witness ==
    /\ pc = "failed"
    /\ li >= 1
    /\ layers[li].execution_mode = "parallel"
    /\ \E i, j \in 1..NumNodes(li) :
          status[li][i] = "failed" /\ status[li][j] = "done"

\* ---- C7
SomeTaskFailed(l) ==
    /\ layers[l].execution_mode = "parallel"
    /\ \E i \in 1..NumNodes(l) : status[l][i] = "failed"
SomeTaskPending(l) ==
    \E i \in 1..NumNodes(l) : status[l][i] \in {"created", "waiting"}

\* C7 as claimed: once a task of the running PARALLEL layer has failed, the
\* layer call ends in failure, whether or not the sibling tasks complete.
C7_FailureEndsLayer ==
    \A l \in 1..MaxLayers :
        [](((l <= NumLayers) /\ Running(l) /\ SomeTaskFailed(l))
              => <>(pc = "failed"))

\* C7 as amended: a PARALLEL layer creates the tasks of all its nodes
\* together at layer entry and its call stays suspended as long as any of
\* them has not completed, even when another has already failed.
C7_LayerWaitsForAllTasks ==
    \A l \in 1..NumLayers :
        layers[l].execution_mode = "parallel" =>
            /\ (\E i \in 1..NumNodes(l) : status[l][i] # "none")
                  => \A i \in 1..NumNodes(l) : status[l][i] # "none"
            /\ SomeTaskPending(l) => Running(l)

\* A failed task and a sibling still awaiting the external client.
C7_Witness ==
    \E l \in 1..NumLayers :
        /\ Running(l)
        /\ SomeTaskFailed(l)
        /\ \E i \in 1..NumNodes(l) : status[l][i] = "waiting"

\* ---- C8
\* C8: in a SEQUENTIAL layer the first node is called with the layer's
\* input, every later node with exactly the text returned by the node before
\* it, and the mapping the layer returns holds each node's own output under
\* its id.
C8_SequentialChaining ==
    \A l \in 1..NumLayers :
        layers[l].execution_mode = "sequential" =>
            /\ Running(l) => received[l][1] = current_data
            /\ (l = 1 /\ pc # "idle") => received[l][1] = original_query
            /\ \A i \in 2..NumNodes(l) :
                  status[l][i] # "none" =>
                      IsText(received[l][i]) /\ received[l][i] = out[l][i - 1]
            /\ IsMap(layer_outputs[l]) => IsWholeOutput(layer_outputs[l], l)

\* A SEQUENTIAL layer of two nodes, given a mapping, returned two different
\* texts.
C8_Witness ==
    \E l \in 2..NumLayers :
        /\ layers[l].execution_mode = "sequential"
        /\ NumNodes(l) >= 2
        /\ IsMap(received[l][1])
        /\ IsMap(layer_outputs[l])
        /\ out[l][1] # out[l][2]

\* ---- C9
\* C9: in a SEQUENTIAL layer a node is started only after the node before it
\* has returned, at most one node is running, and when a node has failed
\* process() has raised that node's exception and no later node of the
\* layer was ever started.
C9_SequentialOneAtATime ==
    \A l \in 1..NumLayers :
        layers[l].execution_mode = "sequential" =>
            /\ \A i \in 2..NumNodes(l) :
                  status[l][i] # "none" => status[l][i - 1] = "done"
            /\ Cardinality({i \in 1..NumNodes(l) :
                              status[l][i] \in {"created", "waiting"}}) <= 1
            /\ \A i \in 1..NumNodes(l) :
                  status[l][i] = "failed" =>
                      /\ pc = "failed"
                      /\ error = excs[l][i]
                      /\ \A j \in (i + 1)..NumNodes(l) :
                            status[l][j] = "none" /\ calls[l][j] = 0

\* The first of two nodes of a SEQUENTIAL layer failed.
C9_Witness ==
    \E l \in 1..NumLayers :
        /\ layers[l].execution_mode = "sequential"
        /\ NumNodes(l) >= 2
        /\ status[l][1] = "failed"

\* ---- C10
\* Node <<l, i>> has run _prepare_variables on a keyed mapping.
PreparedFromMap(l, i) ==
    /\ IsMap(received[l][i])
    /\ status[l][i] \notin {"none", "created"}
Absent(l, i) ==
    {p \in Range(NodeOf(l, i).input_context) : ~DHas(received[l][i].map, p)}
FailedNaming(l, i, missing) ==
    /\ status[l][i] = "failed"
    /\ calls[l][i] = 0
    /\ variables[l][i] = None
    /\ excs[l][i].kind = "missing_variable"
    /\ excs[l][i].placeholder \in missing
    /\ excs[l][i].node = NodeOf(l, i).node_id
    /\ excs[l][i].available = DKeys(received[l][i].map)

\* C10 as claimed: a node given a keyed mapping that lacks any placeholder
\* of its input context fails before the external call, naming an absent
\* placeholder and listing the available keys; otherwise every placeholder
\* is bound to the mapping's value for it.
C10_AbsentPlaceholderFails ==
    \A n \in Nodes :
        LET l == n[1]
            i == n[2]
        IN PreparedFromMap(l, i) =>
            IF Absent(l, i) # {}
            THEN FailedNaming(l, i, Absent(l, i))
            ELSE /\ variables[l][i] # None
                 /\ \A p \in Range(NodeOf(l, i).input_context) :
                       variables[l][i][p] = DGet(received[l][i].map, p)

\* C10 as amended: the same for every placeholder other than `context_info`;
\* an absent `context_info` is bound to empty text, and no other placeholder
\* is bound to anything but the mapping's value for it.
C10_AbsentPlaceholderFailsExceptContextInfo ==
    \A n \in Nodes :
        LET l == n[1]
            i == n[2]
        IN PreparedFromMap(l, i) =>
            IF Absent(l, i) \ {"context_info"} # {}
            THEN FailedNaming(l, i, Absent(l, i) \ {"context_info"})
            ELSE /\ variables[l][i] # None
                 /\ calls[l][i] = 1
                 /\ \A p \in Range(NodeOf(l, i).input_context) :
                       variables[l][i][p] =
                           IF p \in Absent(l, i) THEN Text("")
                           ELSE DGet(received[l][i].map, p)

\* A node given a non-empty mapping failed on an absent placeholder while
\* its input context also names an absent `context_info`.
C10_Witness ==
    \E n \in Nodes :
        /\ PreparedFromMap(n[1], n[2])
        /\ Len(received[n[1]][n[2]].map) > 0
        /\ "context_info" \in Absent(n[1], n[2])
        /\ status[n[1]][n[2]] = "failed"
        /\ excs[n[1]][n[2]].kind = "missing_variable"

\* ---- C11
\* Node <<l, i>> built its variable mapping from raw text.
PreparedFromText(l, i) ==
    /\ IsText(received[l][i])
    /\ variables[l][i] # None

\* C11: a node given raw text binds that text to exactly those of the
\* reserved names `question` and `query` that occur among its placeholders,
\* and to no placeholder of any other name.
C11_RawTextOnlyReservedNames ==
    \A n \in Nodes :
        LET l == n[1]
            i == n[2]
        IN PreparedFromText(l, i) =>
            \A p \in Range(NodeOf(l, i).input_context) :
                (variables[l][i][p] = received[l][i]) <=>
                    p \in {"question", "query"}

\* ---- C12
\* C12: during one process() call the external client is invoked at most
\* once per node, and exactly once for every node of the pipeline when the
\* call returns; a node that failed was not invoked again.
C12_OneCallPerNode ==
    /\ \A n \in Nodes : calls[n[1]][n[2]] <= 1
    /\ pc = "done" => \A n \in Nodes : calls[n[1]][n[2]] = 1
    /\ \A n \in Nodes :
          (status[n[1]][n[2]] = "failed" /\ excs[n[1]][n[2]].kind = "external")
              => calls[n[1]][n[2]] = 1

\* process() returned from a pipeline of at least three nodes, or raised
\* after an external call failed in a layer of two nodes.
C12_Witness ==
    \/ pc = "done" /\ Cardinality(Nodes) >= 3
    \/ /\ pc = "failed"
       /\ \E n \in Nodes :
             /\ NumNodes(n[1]) = 2
             /\ excs[n[1]][n[2]].kind = "external"

\* ---- C13
\* The last load_config call was given readable files.
LoadedConfig == loaded # None /\ "config" \in DOMAIN loaded
\* The last load_config call returned.
LoadAccepted == LoadedConfig /\ load_error = NoError

\* C13: after load_config accepted a configuration, a process() call fails
\* only with a data-flow error (an unresolved placeholder, reported by the
\* pipeline or by the node) or with the error of an external call, never
\* for a reason that lies in the configuration or the templates.
C13_OnlyDataFlowOrNodeErrors ==
    (LoadAccepted /\ pc = "failed") =>
        error.kind \in {"configuration", "missing_variable", "external"}

\* ---- C14
FlowKinds ==
    {"empty_pipeline", "duplicate_layer_ids", "duplicate_node_ids_in_layer",
     "duplicate_node_ids_across_layers", "empty_layer"}
LLMKinds == {"temperature", "max_tokens", "reasoning_effort"}
ValidationKinds == FlowKinds \cup LLMKinds \cup {"missing_templates"}

\* Every violation the first phase can detect in a configuration.
FlowViolations(config) ==
    LET ls == config.layers
        layer_ids == [l \in 1..Len(ls) |-> ls[l].layer_id]
        node_ids == [i \in 1..Len(ConfigNodes(config)) |->
                        ConfigNodes(config)[i].node_id]
    IN {<< "layer_id", x >> : x \in Range(Duplicates(layer_ids))}
       \cup {<< "node_id", x >> : x \in Range(Duplicates(node_ids))}
       \cup {<< "empty_layer", ls[l].layer_id >> :
                l \in {k \in 1..Len(ls) : Len(ls[k].nodes) = 0}}
\* Every node the second phase can find out of range.
LLMViolations(config) ==
    {<< "llm", n.node_id >> :
        n \in {m \in Range(ConfigNodes(config)) : LLMError(m) # NoError}}
\* Every template id the third phase can find missing.
TemplateViolations(config, store) ==
    {<< "template_id", n.template_id >> :
        n \in {m \in Range(ConfigNodes(config)) : ~DHas(store, m.template_id)}}
\* What a validation error reports.
Reported(err) ==
    IF err.kind = "duplicate_layer_ids"
        THEN {<< "layer_id", x >> : x \in Range(err.duplicates)}
    ELSE IF err.kind \in {"duplicate_node_ids_in_layer",
                          "duplicate_node_ids_across_layers"}
        THEN {<< "node_id", x >> : x \in Range(err.duplicates)}
    ELSE IF err.kind = "empty_layer" THEN {<< "empty_layer", err.layer >>}
    ELSE IF err.kind \in LLMKinds THEN {<< "llm", err.node >>}
    ELSE IF err.kind = "missing_templates"
        THEN {<< "template_id", x >> : x \in err.template_ids}
    ELSE {}

\* C14: the error a validation phase raises reports every violation that
\* phase can detect: all duplicated layer and node ids and all empty
\* layers; all nodes with out-of-range LLM parameters; all missing
\* template ids.
C14_EveryViolationReported ==
    LoadedConfig =>
        /\ load_error.kind \in FlowKinds =>
              FlowViolations(loaded.config) \subseteq Reported(load_error)
        /\ load_error.kind \in LLMKinds =>
              LLMViolations(loaded.config) \subseteq Reported(load_error)
        /\ load_error.kind = "missing_templates" =>
              TemplateViolations(loaded.config, templates)
                  \subseteq Reported(load_error)

\* ---- C15
\* The second validation phase was reached by the last load_config call.
LLMPhaseReached == LoadedConfig /\ load_error.kind \notin FlowKinds
InRange(c) == 0 <= c.temperature /\ c.temperature <= 2 /\ c.max_tokens > 0

TemplateOf(l, i) == DGet(templates, loaded.config.layers[l].nodes[i].template_id)
\* The last load_config call was given two or more layers that pass the
\* checks on ids and LLM parameters, and every node's template is in the
\* store with an input context and an expected output.
WellFormedLoad ==
    /\ LoadedConfig
    /\ Len(loaded.config.layers) >= 2
    /\ ValidatePipelineFlow(loaded.config) = NoError
    /\ ValidateLLMConfigs(loaded.config) = NoError
    /\ \A n \in Range(ConfigNodes(loaded.config)) :
          /\ DHas(templates, n.template_id)
          /\ Len(MissingKeys(DGet(templates, n.template_id))) = 0
\* The placeholders the templates of layer l require and the tokens they
\* produce.
Required(l) ==
    UNION {Range(ContextPlaceholders(TemplateOf(l, i).input_context)) :
              i \in 1..Len(loaded.config.layers[l].nodes)}
Produced(l) ==
    {TemplateOf(l, i).expected_output :
        i \in 1..Len(loaded.config.layers[l].nodes)}
Unproduced(l) == Required(l) \ (Produced(l - 1) \cup {"query", "input"})

\* C16: validate_complete_config returns True when every placeholder of a
\* later layer's templates is the expected_output of a template used in the
\* preceding layer or a reserved name, and raises ValueError when some
\* later layer's template requires a placeholder that no template of the
\* preceding layer produces.
C16_ValidatorChecksPlaceholders ==
    WellFormedLoad =>
        IF \A l \in 2..Len(loaded.config.layers) : Unproduced(l) = {}
        THEN load_error.kind \notin ValidationKinds
        ELSE load_error.kind \in ValidationKinds

\* ---- C17
\* C17: when load_config raised, no process() call runs a pipeline whose
\* layers are a strict non-empty prefix of the configuration that was being
\* loaded.
C17_NoRunnablePartialPipeline ==
    (LoadedConfig /\ load_error # NoError) =>
        ~ /\ 0 < NumLayers
          /\ NumLayers < Len(loaded.config.layers)
          /\ \A l \in 1..NumLayers :
                layers[l].layer_id = loaded.config.layers[l].layer_id
          /\ pc \in {"running", "done"}

\* ---- C18
\* The states process(q) may lead to, up to its first suspension, on a
\* pipeline with the layers `layers` that has processed nothing yet.
FirstSteps ==
    IF NumLayers = 0
    THEN {[Fresh(layers) EXCEPT !.pc = "failed",
                                !.error = [kind |-> "no_layers"]]}
    ELSE UNION {LayerProcess([Fresh(layers) EXCEPT !.pc = "running"], 1, q) :
                   q \in Queries}

LoadedTemplates == loaded # None /\ "before" \in DOMAIN loaded

\* C19: after loading B in merge mode on a store A, the store's ids are
\* those of A and of B, each id of B holds B's entry and every id of A that
\* B lacks holds A's entry; after loading B in replace mode the store holds
\* exactly B's entries; and validate_templates raises on an emptied store.
C19_MergeAndReplace ==
    /\ LoadedTemplates =>
        LET A == loaded.before
            B == loaded.templates
        IN /\ DKeySet(templates) =
                  IF loaded.replace THEN DKeySet(B)
                  ELSE DKeySet(A) \cup DKeySet(B)
           /\ Len(templates) = Cardinality(DKeySet(templates))
           /\ \A k \in DKeySet(templates) :
                  DGet(templates, k) =
                      IF DHas(B, k) THEN DGet(B, k) ELSE DGet(A, k)
    /\ (Len(templates) = 0 /\ validation # None) =>
          validation = [kind |-> "no_templates"]

\* B was merged into a store A with which it shares an id under a different
\* entry, while A holds another id that B lacks.
C19_Witness ==
    /\ LoadedTemplates
    /\ ~loaded.replace
    /\ \E k \in DKeySet(loaded.before) \cap DKeySet(loaded.templates) :
          DGet(loaded.before, k) # DGet(loaded.templates, k)
    /\ DKeySet(loaded.before) \ DKeySet(loaded.templates) # {}

\* ---- C20
\* The <<template id, placeholder>> pairs of the store whose placeholder is
\* declared by the template but does not occur in braces in its text.
Inconsistent ==
    UNION {{<< templates[i][1], p >> :
               p \in Range(templates[i][2].placeholders)
                         \ Range(templates[i][2].template.str)} :
           i \in {j \in 1..Len(templates) :
                     /\ {"template", "placeholders"} \subseteq DOMAIN templates[j][2]
                     /\ IsStr(templates[j][2].template)}}
\* The store entries validate_templates rejects for their structure.
Malformed ==
    {templates[i][1] : i \in {j \in 1..Len(templates) :
        \/ ~({"template", "placeholders", "metadata"} \subseteq DOMAIN templates[j][2])
        \/ ~IsStr(templates[j][2].template)}}

LackingObjects(file) ==
    LET ls == IF file.file = "json" /\ "layers" \in DOMAIN file.data
                 /\ IsList(file.data.layers)
              THEN file.data.layers.list ELSE << >>
        NodesOf(l) == IF "nodes" \in DOMAIN ls[l] /\ IsList(ls[l].nodes)
                      THEN ls[l].nodes.list ELSE << >>
        Names(d, j) == {Index[j]} \cup (IF "id" \in DOMAIN d THEN {d.id} ELSE {})
        LayerSite(l) ==
            {[field |-> LayerKeys[j], names |-> Names(ls[l], l)] :
                j \in Lacking(LayerKeys, ls[l])}
        NodeSite(l, i) ==
            {[field |-> NodeKeys[j], names |-> Names(NodesOf(l)[i], i)] :
                j \in Lacking(NodeKeys, NodesOf(l)[i])}
        LLMSite(l, i) ==
            IF "llm_config" \notin DOMAIN NodesOf(l)[i] THEN {}
            ELSE {[field |-> LLMKeys[j], names |-> Names(NodesOf(l)[i], i)] :
                    j \in Lacking(LLMKeys, NodesOf(l)[i].llm_config)}
    IN UNION {LayerSite(l)
              \cup UNION {NodeSite(l, i) \cup LLMSite(l, i) :
                          i \in 1..Len(NodesOf(l))} :
              l \in 1..Len(ls)}
MissingFieldTexts ==
    {"Layer config missing required key", "Node config missing required key",
     "LLM config missing required key"}
\* The class of failure a layer file belongs to.
FailureClass(file) ==
    IF file.file = "absent" THEN "not_found"
    ELSE IF file.file = "malformed" THEN "syntax"
    ELSE IF "layers" \notin DOMAIN file.data \/ LackingObjects(file) # {}
    THEN "missing_field" ELSE "other"
FailureSamples ==
    {AbsentFile, MalformedFile, LayerFile(1, 0, {<< "layer", 1, 0, "name" >>}, {})}
\* C21: a file that is absent, a file that is not JSON and a file with a
\* missing required field fail with three different exception kinds, and
\* the error for a missing field names the field and the layer or node that
\* lacks it.
C21_LoaderErrorsDistinctAndNamed ==
    (loaded # None /\ load_error # NoError) =>
        /\ \A g \in FailureSamples :
              FailureClass(g) # FailureClass(loaded) /\ FailureClass(loaded) # "other"
                  => LoadLayerConfig(g).err.type # load_error.type
        /\ load_error.text \in MissingFieldTexts =>
              \E o \in LackingObjects(loaded) :
                  /\ o.field \in Range(load_error.args)
                  /\ o.names \cap Range(load_error.args) # {}

\* ---- C22
\* C22: outside mock mode generate_text makes at most max(1, max_retries)
\* requests, sleeps a doubling delay after every failed attempt but the
\* last, returns only the text of a request that succeeded, and raises the
\* last request's exception once every attempt has failed.
C22_BoundedRetryNeverReturnsUnrequested ==
    (client # None /\ ~client.config.mock_responses) =>
        /\ client.requests <= IF client.config.max_retries > 1
                              THEN client.config.max_retries ELSE 1
        /\ \A k \in 1..Len(client.sleeps) :
              client.sleeps[k] = client.config.retry_delay * (2 ^ (k - 1))
        /\ client.pc = "returned" =>
              /\ client.requests = Len(client.failures) + 1
              /\ client.result = IF client.response = None THEN Text("")
                                 ELSE client.response
        /\ client.pc = "raised" =>
              /\ client.requests = Len(client.failures)
              /\ Len(client.sleeps) = Len(client.failures) - 1
              /\ client.error = client.failures[Len(client.failures)]

\* ---- C23
\* C23: when process() fails with the exception of an external call, the
\* exception carries the id of the node that made the call.
C23_ExternalFailureCarriesNodeId ==
    (pc = "failed" /\ error.kind = "external") =>
        /\ "node" \in DOMAIN error
        /\ error.node = NodeOf(error.call[1], error.call[2]).node_id

\* ---- C24
\* The configuration breaks a rule of the first phase, of the second phase,
\* and refers to a template the store lacks.
BreaksFlow(config) == FlowViolations(config) # {} \/ Len(config.layers) = 0
BreaksLLM(config) ==
    \E n \in Range(ConfigNodes(config)) :
        \/ ~InRange(n.llm_config)
        \/ n.llm_config.reasoning_effort \notin {"low", "medium", "high", "default"}
BreaksTemplates(config, store) == TemplateViolations(config, store) # {}
\* C24: load_config's validation reports a structural error whenever the
\* configuration has one, otherwise an LLM parameter error whenever it has
\* one, otherwise the missing templates; and what it reports for a
\* configuration that fails one of the first two phases does not depend on
\* the template store.
C24_PhasesInOrder ==
    LoadedConfig =>
        LET config == loaded.config IN
        /\ BreaksFlow(config) => load_error.kind \in FlowKinds
        /\ (~BreaksFlow(config) /\ BreaksLLM(config)) =>
              load_error.kind \in LLMKinds
        /\ (~BreaksFlow(config) /\ ~BreaksLLM(config)
            /\ BreaksTemplates(config, templates)) =>
              load_error.kind = "missing_templates"
        /\ (BreaksFlow(config) \/ BreaksLLM(config)) =>
              \A store \in {<< >>, GoodStore} :
                  ValidateCompleteConfig(config, store) = load_error
\* load_config rejected for its structure a configuration that also has an
\* LLM parameter out of range and refers to a template the store lacks.
C24_Witness ==
    /\ LoadedConfig
    /\ BreaksFlow(loaded.config)
    /\ BreaksLLM(loaded.config)
    /\ BreaksTemplates(loaded.config, templates)
    /\ load_error.kind \in FlowKinds

\* ---- C25
\* C25: when process() has failed with the unresolved-placeholder error of
\* the transition from layer N to layer N+1, every node of the layers 1..N
\* has completed after exactly one external call, and no node of a later
\* layer has been given an input or made a call.
C25_WiringReportedAfterLayerRan ==
    (pc = "failed" /\ error.kind = "configuration") =>
        /\ li < NumLayers
        /\ error.previous = layers[li].layer_id
        /\ error.layer = layers[li + 1].layer_id
        /\ \A n \in Nodes :
              IF n[1] <= li
              THEN calls[n[1]][n[2]] = 1 /\ status[n[1]][n[2]] = "done"
              ELSE /\ calls[n[1]][n[2]] = 0
                   /\ status[n[1]][n[2]] = "none"
                   /\ received[n[1]][n[2]] = None
\* process() failed at the transition out of a second layer of two nodes.
C25_Witness ==
    /\ pc = "failed"
    /\ error.kind = "configuration"
    /\ li = 2
    /\ NumNodes(2) = 2
    /\ NumLayers = 3

\* ---- C26
\* The nodes of the layer being processed that have failed, and the order in
\* which they failed.
FailedNodes == {i \in 1..NumNodes(li) : status[li][i] = "failed"}
FailureOrder ==
    SelectSeq(completion, LAMBDA c : c[1] = li /\ status[li][c[2]] = "failed")
\* C26: when a PARALLEL layer has raised, the exception is the one of the
\* failed node that comes first in configuration order.
C26_FirstFailedInConfigurationOrder ==
    (pc = "failed" /\ li > 0 /\ layers[li].execution_mode = "parallel"
     /\ FailedNodes # {}) =>
        error = excs[li][First(FailedNodes)]
\* A PARALLEL layer raised after its second node failed before its first,
\* both in their external calls.
C26_Witness ==
    /\ pc = "failed"
    /\ li > 0
    /\ layers[li].execution_mode = "parallel"
    /\ FailedNodes = {1, 2}
    /\ FailureOrder = << << li, 2 >>, << li, 1 >> >>
    /\ error = ExternalError(li, 1)
    /\ excs[li][2] = ExternalError(li, 2)

\* ---- C27
\* One pass over the text: every `{name}` of the text itself gives way to
\* the value bound to name, and the values are inserted as they are.
RECURSIVE SinglePass(_, _)
SinglePass(text, bindings) ==
    IF Len(text) = 0 THEN << >>
    ELSE (IF "hole" \in DOMAIN Head(text) /\ DHas(bindings, Head(text).hole)
          THEN DGet(bindings, Head(text).hole) ELSE << Head(text) >>)
         \o SinglePass(Tail(text), bindings)
\* C27: the context of a rendered prompt is the input context with each
\* `{name}` replaced once by the bound value, the value itself left as it
\* is, whatever the order of the variable mapping.
C27_RenderingIsOnePass ==
    (loaded # None /\ "input_context" \in DOMAIN loaded) =>
        LET ctx == loaded.input_context
            context ==
                IF DOMAIN ctx = {"list"}
                THEN Join([i \in 1..Len(ctx.list) |->
                              SinglePass(ctx.list[i], loaded.variables)])
                ELSE SinglePass(ctx.text, loaded.variables)
        IN returned = Join(<< << Chunk("[TASK] task") >>,
                              << Chunk("[CONTEXT] ") >> \o context,
                              << Chunk("[EXPECTED OUTPUT] token") >> >>)

\* C28: every layer that load_config builds from the configuration runs in
\* parallel mode; a sequential layer in the pipeline is always one that an
\* add_layer call installed.
ConfiguredLayers == (1..NumLayers) \ AddedLayers
C28_ConfiguredLayersAreParallel ==
    /\ \A l \in ConfiguredLayers : layers[l].execution_mode = "parallel"
    /\ \A l \in 1..NumLayers :
          layers[l].execution_mode = "sequential" => l \in AddedLayers
\* A loaded configuration ran to the end together with a sequential layer
\* that add_layer installed behind it.
C28_Witness ==
    /\ loaded # None
    /\ "config" \in DOMAIN loaded
    /\ ConfiguredLayers # {}
    /\ \E l \in AddedLayers : layers[l].execution_mode = "sequential"
    /\ pc = "done"

\* C29: Pipeline(config=c) raises "Node factory not initialized" and leaves
\* no layers behind; the layer list goes from empty to non-empty only in a
\* load_config step or an add_layer step; and a process() call on a
\* pipeline without layers raises "no layers configured" and returns
\* nothing.
ConstructorRaised ==
    /\ loaded # None
    /\ "constructor" \in DOMAIN loaded
LoadConfigStep ==
    \E load \in BuildLoads, replace \in BOOLEAN : LoadConfig(load, replace)
AddLayerStep ==
    \E layer \in AddableLayers, position \in {None, [index |-> 0]} : AddLayer(layer, position)
ProcessStep ==
    \E q \in Queries : Process(q)
C29_LayersOnlyFromLoadOrAdd ==
    /\ [](ConstructorRaised
            => load_error = [kind |-> "no_node_factory"] /\ layers = << >>)
    /\ [][layers = << >> /\ layers' # << >>
            => LoadConfigStep \/ AddLayerStep]_vars
    /\ [][layers = << >> /\ ProcessStep
            => /\ pc' = "failed"
               /\ error' = [kind |-> "no_layers"]
               /\ result' = None]_vars
\* The constructor was given a configuration with layers in it and raised.
C29_Witness ==
    /\ ConstructorRaised
    /\ Len(loaded.constructor.layers) > 0
    /\ load_error = [kind |-> "no_node_factory"]

\* C30: with two process() calls interleaved on one pipeline, in each call
\* every node input is the one derived from that call's own query and that
\* call's own node outputs, every stored layer output holds that call's own
\* node outputs, and a returned result is the last layer's output of that
\* call: what the call yields alone with the same client responses.
\* The input of layer l in a call of query q whose nodes returned X.out.
OwnLayerInput(q, X, l) ==
    IF l = 1 THEN q
    ELSE PrepareInputForNextLayer(q, Results(X, l - 1, NumNodes(l - 1)), l - 1).data
OwnDataFlow(q, X) ==
    /\ \A l \in 1..NumLayers :
          /\ \A i \in 1..NumNodes(l) :
                X.status[l][i] # "none" =>
                    X.received[l][i] =
                        IF layers[l].execution_mode = "sequential" /\ i > 1
                        THEN X.out[l][i - 1]
                        ELSE OwnLayerInput(q, X, l)
          /\ X.layer_outputs[l] # None =>
                X.layer_outputs[l] = MapV(Results(X, l, NumNodes(l)))
    /\ X.pc = "done" =>
          /\ X.result = MapV(Results(X, NumLayers, NumNodes(NumLayers)))
          /\ \A n \in Nodes : IsText(X.out[n[1]][n[2]])
    /\ X.pc = "failed" =>
          \E n \in Nodes : X.status[n[1]][n[2]] = "failed"
                           /\ X.error = X.excs[n[1]][n[2]]
C30_CallsKeepTheirOwnData ==
    /\ OwnDataFlow(original_query, Cur)
    /\ suspended # None =>
          OwnDataFlow(suspended.original_query, suspended.call)
\* One call has returned while the other, given another query and other
\* responses in the first layer, is waiting in the second layer.
C30_Witness ==
    /\ suspended # None
    /\ suspended.original_query # original_query
    /\ pc = "done"
    /\ suspended.call.pc = "running"
    /\ suspended.call.li = 2
    /\ suspended.call.status[2][1] = "waiting"
    /\ suspended.call.out[1] # out[1]
    /\ suspended.call.received[2][1] # received[2][1]

====
